---- MODULE Spec2Model ----
(***************************************************************************)
(* Verification model of the ADIAT image-analysis tool.                    *)
(*                                                                         *)
(*   SpecTexture : TextureAnalysisService (GLCM texture of one AOI)        *)
(*                                                                         *)
(* Floating-point values are modelled in fixed point: a feature value v is *)
(* the integer floor(v * Scale).                                           *)
(***************************************************************************)
EXTENDS Integers, Sequences, FiniteSets, TLC

VARIABLES
    image,          \* the grayscale image handed to the texture service
    aoi,            \* the AOI handed to calculate_aoi_textures
    texture_data,   \* what calculate_aoi_textures returned ("none" before)
    texPc,          \* "input" before the call, "done" after it
    aois,           \* the AOI list handed to filter_aois_by_texture
    input_aois,     \* that list as it was when it was drawn
    min_difference, \* filter thresholds: <<>> (None) or <<v>>
    min_ratio,
    max_ratio,
    filtered,       \* the list the first call returned
    refiltered,     \* the list the call on `filtered` returned
    filterPc,       \* "input", "filtered", "refiltered"
    target_color_lab, \* LABColorRangeService.target_color_lab: <<>> or <<L,A,B>>
    options,        \* LABColorRangeService.options
    min_area,       \* AlgorithmService.min_area
    last,           \* the process_image call in hand: its input and outcome
    n_processed,    \* number of images whose AnalysisResult was collected
    n_errors,       \* how many of those carried an error_message
    startButton,    \* MainWindow.startButton.isEnabled()
    cancelButton,   \* MainWindow.cancelButton.isEnabled()
    viewResultsButton, \* MainWindow.viewResultsButton.isEnabled()
    selectedColor,  \* ColorRangeController.selectedColor: "None", "invalid", "valid"
    hasColorRange,  \* ColorRangeController.lowerColor / upperColor are set
    activeAlgorithm, \* the algorithm whose widget is loaded
    hasLabWindow,   \* LABColorRangeController._lab_window is not None
    inputFolderLine,  \* text of the input folder line
    outputFolderLine, \* text of the output folder line
    analyzeService, \* MainWindow.analyzeService: <<>> or <<[cancelled]>>
    nServices,      \* AnalyzeService objects constructed so far
    nThreads,       \* worker threads started so far (len(__threads))
    worker,         \* "none", "running", "finished" (done emitted, not handled)
    warned,         \* the running batch has emitted its AOI-limit warning
    endedByCancel,  \* the batch that finished stopped because of the cancel flag
    events,         \* signals queued to the GUI thread
    dialog,         \* the modal dialog the GUI thread is in: "none", "aois_limit"
    errorShown,     \* text of the last showError dialog
    summary,        \* what onWorkerDone logged last: <<>> or <<[kind, n]>>
    results_path,   \* MainWindow.results_path
    lastHandler,    \* the GUI handler that ran last, and how it ended
    loadedXml,      \* what the results file held that handler loaded, if it loaded one
    logged,         \* per finished batch: how it ended and the summary logged
    labPc,          \* "ready", "dispatched", "returned", or "aborted" once a
                    \* call has raised
    features,       \* the feature dict handed to _calculate_composite_score
    score,          \* what it returned: <<>> before, <<v>> after
    scorePc,        \* "input" before the call, "done" after it
    temperatureUnit, \* the persisted TemperatureUnit setting
    spinUnit,       \* the unit the widget's spin boxes and labels were set up for
    minTempSpinBox, \* ThermalRangeController.minTempSpinBox.value()
    maxTempSpinBox, \* ThermalRangeController.maxTempSpinBox.value()
    thermalOptions, \* what getOptions returned last: <<>> or <<[minTemp, maxTemp]>>
    thermalPc,      \* "editing", "min_edited" / "max_edited" right after
                    \* updateMinTemp / updateMaxTemp, "options" after getOptions
    images,         \* Viewer.images: per image index its AOI records
    xml_images,     \* the records as the results file delivered them
    flagged_aois,   \* AOIController.flagged_aois: image index -> set of AOI indices
    selected_aoi_index, \* AOIController.selected_aoi_index (-1: none)
    current_image,  \* Viewer.current_image
    filter_flagged_only, \* AOIController.filter_flagged_only
    picker,         \* LABRangePicker: l, a, b and the six tolerances
    preview_timer,  \* LABColorRangeDialog.preview_timer is running
    preview,        \* what update_preview last thresholded with
    lab_window,     \* LABColorRangeController._lab_window
    detector_bounds, \* the bounds process_image thresholds with
    dlgPc,          \* "open", "accepted", "processed"
    batch_image,    \* analyze_aoi_batch: image
    batch_aois,     \* analyze_aoi_batch: the caller's list aois
    batch_input,    \* the list as the caller passed it
    batch_i,        \* position of the for loop
    batch_result,   \* what analyze_aoi_batch returned
    batchPc,        \* "loop", "returned"
    mask_aois,      \* the AOIs of one image, each with the pixels detected for it
    mask_file,      \* the image's mask file: "", "missing", "unreadable", "ok"
    mask_band,      \* band 0 of the mask file, indexed <<row, column>>
    loaded,         \* last call of load_detected_pixels_from_mask: AOI and result
    image_files,    \* what _get_image_files finds: per file how its processing goes
    setup_fault,    \* the step before the loop that raises, or "none"
    cancelled,      \* ChromaticAberrationRemovalService.cancelled
    caPc,           \* position of process_images
    idx,            \* loop index of process_images
    processed_count,
    outputs,        \* indices of the files written to the output folder
    emitted,        \* the signals emitted so far, in order
    sig_done_count, \* the count carried by sig_done, once emitted
    flag_reads,     \* positions at which process_images has read self.cancelled
    started,        \* indices whose iteration went past the cancel test
    cancel_after,   \* how many iterations had gone past the test when
                    \* process_cancel was called
    list_aois,      \* len(areas_of_interest) of the image the AOI list shows
    list_flagged,   \* AOIController.flagged_aois[image] of that image
    list_filter,    \* AOIController.filter_flagged_only
    list_selected,  \* AOIController.selected_aoi_index (-1: none)
    aoi_containers  \* AOIController.aoi_containers: per displayed thumbnail
                    \* its aoi_index property and its AOI's list position

texVars == <<image, aoi, texture_data, texPc>>
filterVars == <<aois, input_aois, min_difference, min_ratio, max_ratio,
                filtered, refiltered, filterPc>>
labVars == <<target_color_lab, options, min_area, last, n_processed, n_errors,
             labPc>>
buttonVars == <<startButton, cancelButton, viewResultsButton>>
widgetVars == <<selectedColor, hasColorRange, activeAlgorithm, hasLabWindow,
                inputFolderLine, outputFolderLine>>
runVars == <<analyzeService, nServices, nThreads, worker, warned, endedByCancel,
             events>>
guiVars == <<dialog, errorShown, summary, results_path, lastHandler, loadedXml,
             logged>>
mwVars == <<buttonVars, widgetVars, runVars, guiVars>>
scoreVars == <<features, score, scorePc>>
thermalVars == <<temperatureUnit, spinUnit, minTempSpinBox, maxTempSpinBox,
                 thermalOptions, thermalPc>>
aoiVars == <<images, xml_images, flagged_aois, selected_aoi_index, current_image,
             filter_flagged_only>>
dlgVars == <<picker, preview_timer, preview, lab_window, detector_bounds, dlgPc>>
batchVars == <<batch_image, batch_aois, batch_input, batch_i, batch_result, batchPc>>
maskVars == <<mask_aois, mask_file, mask_band, loaded>>
caVars == <<image_files, setup_fault, cancelled, caPc, idx, processed_count, outputs,
            emitted, sig_done_count, flag_reads, started, cancel_after>>
aoiListVars == <<list_aois, list_flagged, list_filter, list_selected,
                aoi_containers>>
extVars == <<scoreVars, thermalVars, aoiVars, dlgVars, batchVars, maskVars, caVars, aoiListVars>>
vars == <<texVars, filterVars, labVars, mwVars, extVars>>

None == "None"

\* an Optional[float] threshold is <<>> for None and <<v>> for the number v
NoThreshold == <<>>

\* the value None where a record may stand (a texture_data entry)
NoneData == [ none |-> TRUE ]

(***************************************************************************)
(* Bounds of the model                                                     *)
(***************************************************************************)
ImgW == 4
ImgH == 2
MaxRadius == 1
MaxDetected == 4
Scale == 1000

(***************************************************************************)
(* Program constants                                                       *)
(***************************************************************************)
levels == 256
normalized_levels == 64
MaskOn == 255
MinMaskSum == 4
distances == <<1, 2, 3>>

(***************************************************************************)
(* Helpers                                                                 *)
(***************************************************************************)
Min2(a, b) == IF a <= b THEN a ELSE b
Max2(a, b) == IF a >= b THEN a ELSE b
Abs(a) == IF a >= 0 THEN a ELSE 0 - a

RECURSIVE SumFn(_, _)
SumFn(f, S) ==
    IF S = {} THEN 0
    ELSE LET x == CHOOSE x \in S : TRUE IN f[x] + SumFn(f, S \ {x})

RECURSIVE ISqrtBetween(_, _, _)
ISqrtBetween(lo, hi, n) ==
    IF lo >= hi THEN lo
    ELSE LET mid == (lo + hi + 1) \div 2
         IN IF mid * mid <= n THEN ISqrtBetween(mid, hi, n)
            ELSE ISqrtBetween(lo, mid - 1, n)

\* floor(sqrt(n)) for 0 <= n < 2^31
ISqrt(n) == ISqrtBetween(0, 46340, n)

(***************************************************************************)
(* Images and masks.  A pixel is <<x, y>> (column, row).                   *)
(***************************************************************************)
Pixels == (0 .. ImgW - 1) \X (0 .. ImgH - 1)

GrayVals == {0, 3, 200}

\* uniform images (g1 = g2) and checkerboards of two gray values
Images ==
    { [p \in Pixels |-> IF (p[1] + p[2]) % 2 = 0 THEN g1 ELSE g2] :
        g1 \in GrayVals, g2 \in GrayVals }

\* a horizontal run of n pixels from <<x0, y0>>; it may leave the image
Run(x0, y0, n) == { <<x0 + k, y0>> : k \in 0 .. n - 1 }

DetectedSets ==
    { Run(p[1], p[2], n) : p \in Pixels, n \in 0 .. MaxDetected }

\* centres on the first row; x = ImgW lies just outside the image
Centers == (0 .. ImgW) \X {0}

Aois ==
    [ center : Centers, radius : 0 .. MaxRadius, detected_pixels : DetectedSets ]

(***************************************************************************)
(* TextureAnalysisService                                                  *)
(***************************************************************************)
\* _get_empty_features
EmptyFeatures ==
    [ contrast |-> 0, dissimilarity |-> 0, homogeneity |-> Scale,
      energy |-> Scale, asm |-> Scale, texture_score |-> 0 ]

\* _calculate_composite_score, lines 211-214: the four terms before weighting
CompositeTerms(f) ==
    [ contrast_norm |-> Min2(f.contrast \div 10, Scale),
      dissimilarity_norm |-> Min2(f.dissimilarity \div 5, Scale),
      homogeneity_inv |-> Scale - f.homogeneity,
      energy_inv |-> Scale - f.energy ]

\* a slip: the contrast term is not clamped
CompositeScore_NoClamp(f) ==
    LET contrast_norm == f.contrast \div 10
        dissimilarity_norm == Min2(f.dissimilarity \div 5, Scale)
        homogeneity_inv == Scale - f.homogeneity
        energy_inv == Scale - f.energy
    IN ((3 * contrast_norm + 3 * dissimilarity_norm
          + 2 * homogeneity_inv + 2 * energy_inv) * 100) \div 10

\* _calculate_composite_score
CompositeScore(f) ==
    LET contrast_norm == Min2(f.contrast \div 10, Scale)
        dissimilarity_norm == Min2(f.dissimilarity \div 5, Scale)
        homogeneity_inv == Scale - f.homogeneity
        energy_inv == Scale - f.energy
    IN ((3 * contrast_norm + 3 * dissimilarity_norm
          + 2 * homogeneity_inv + 2 * energy_inv) * 100) \div 10

\* the pixel offsets <<d_row, d_col>> graycomatrix uses for distances
\* 1, 2, 3 and angles 0, pi/4, pi/2, 3pi/4: round(sin(a)*d), round(cos(a)*d)
AngleOffsets(d) ==
    CASE d = 1 -> << <<0, 1>>, <<1, 1>>, <<1, 0>>, <<1, -1>> >>
      [] d = 2 -> << <<0, 2>>, <<1, 1>>, <<2, 0>>, <<1, -1>> >>
      [] d = 3 -> << <<0, 3>>, <<2, 2>>, <<3, 0>>, <<2, -2>> >>

Offsets ==
    { <<i, j>> : i \in DOMAIN distances, j \in 1 .. 4 }

OffsetOf(o) == AngleOffsets(distances[o[1]])[o[2]]

\* GLCM properties of a region, normalized gray level lv[p] for p in roi,
\* for one offset: symmetric, normed co-occurrence counts
GlcmProps(roi, lv, off) ==
    LET pairs == { p \in roi : <<p[1] + off[2], p[2] + off[1]>> \in roi }
        other(p) == <<p[1] + off[2], p[2] + off[1]>>
        n == Cardinality(pairs)
        diff == [ p \in pairs |-> Abs(lv[p] - lv[other(p)]) ]
        lvls == { lv[p] : p \in roi }
        cnt(i, j) == Cardinality({ p \in pairs : lv[p] = i /\ lv[other(p)] = j })
                     + Cardinality({ p \in pairs : lv[p] = j /\ lv[other(p)] = i })
        sq == [ ij \in lvls \X lvls |-> cnt(ij[1], ij[2]) * cnt(ij[1], ij[2]) ]
        sumsq == SumFn(sq, lvls \X lvls)
    IN IF n = 0
       THEN [ contrast |-> 0, dissimilarity |-> 0, homogeneity |-> 0,
              energy |-> 0, asm |-> 0 ]
       ELSE [ contrast |-> (SumFn([ p \in pairs |-> diff[p] * diff[p] ], pairs) * Scale) \div n,
              dissimilarity |-> (SumFn(diff, pairs) * Scale) \div n,
              homogeneity |->
                  SumFn([ p \in pairs |-> Scale \div (1 + diff[p] * diff[p]) ], pairs) \div n,
              energy |-> ISqrt(sumsq * Scale * Scale) \div (2 * n) ,
              asm |-> (sumsq * Scale) \div (4 * n * n) ]

\* graycomatrix + graycoprops(...).mean() + composite score
GlcmFeatures(roi, lv) ==
    LET props == [ o \in Offsets |-> GlcmProps(roi, lv, OffsetOf(o)) ]
        k == Cardinality(Offsets)
        mean(name) == SumFn([ o \in Offsets |-> props[o][name] ], Offsets) \div k
        f == [ contrast |-> mean("contrast"), dissimilarity |-> mean("dissimilarity"),
               homogeneity |-> mean("homogeneity"), energy |-> mean("energy"),
               asm |-> mean("asm") ]
    IN [ contrast |-> f.contrast, dissimilarity |-> f.dissimilarity,
         homogeneity |-> f.homogeneity, energy |-> f.energy, asm |-> f.asm,
         texture_score |-> CompositeScore(f) ]

\* roi_mask.sum(): the sum of the mask VALUES inside the bounding box
RoiMaskSum(mask, roi) == SumFn([ p \in roi |-> mask[p] ], roi)

\* the guard "roi_mask.sum() < 4"
TooFewPixels(mask, roi) == RoiMaskSum(mask, roi) < MinMaskSum

\* calculate_texture_features(image, mask), mask given
CalculateTextureFeatures(img, mask) ==
    LET coords == { p \in Pixels : mask[p] > 0 }
    IN IF coords = {} THEN EmptyFeatures
       ELSE
         LET x_min == CHOOSE x \in { p[1] : p \in coords } :
                         \A q \in coords : x <= q[1]
             x_max == CHOOSE x \in { p[1] : p \in coords } :
                         \A q \in coords : x >= q[1]
             y_min == CHOOSE y \in { p[2] : p \in coords } :
                         \A q \in coords : y <= q[2]
             y_max == CHOOSE y \in { p[2] : p \in coords } :
                         \A q \in coords : y >= q[2]
             roi == (x_min .. x_max) \X (y_min .. y_max)
             masked_gray == [ p \in roi |-> IF mask[p] > 0 THEN img[p] ELSE 0 ]
             normalized ==
                 [ p \in roi |-> (masked_gray[p] * normalized_levels) \div levels ]
         IN IF TooFewPixels(mask, roi) THEN EmptyFeatures
            ELSE GlcmFeatures(roi, normalized)

\* the detected-pixel mask of calculate_aoi_textures
DetectedMask(a) ==
    [ p \in Pixels |-> IF p \in a.detected_pixels THEN MaskOn ELSE 0 ]

\* cv2.circle(aoi_mask, center, radius, 255, -1), clipped to the image
AoiMask(a) ==
    [ p \in Pixels |->
        IF (p[1] - a.center[1]) * (p[1] - a.center[1])
             + (p[2] - a.center[2]) * (p[2] - a.center[2]) <= a.radius * a.radius
        THEN MaskOn ELSE 0 ]

\* a slip in the zero guard: an undefined ratio reported as 1
TextureRatio_NoZeroGuard(detected_score, aoi_score) ==
    IF aoi_score > 0 THEN (detected_score * Scale) \div aoi_score ELSE Scale

\* texture_ratio = detected_score / aoi_score if aoi_score > 0 else 0
TextureRatio(detected_score, aoi_score) ==
    IF aoi_score > 0 THEN (detected_score * Scale) \div aoi_score ELSE 0

\* calculate_aoi_textures(image, aoi)
CalculateAoiTextures(img, a) ==
    LET detected_texture == CalculateTextureFeatures(img, DetectedMask(a))
        aoi_texture == CalculateTextureFeatures(img, AoiMask(a))
        detected_score == detected_texture.texture_score
        aoi_score == aoi_texture.texture_score
    IN [ detected_texture |-> detected_texture,
         aoi_texture |-> aoi_texture,
         texture_difference |-> detected_score - aoi_score,
         texture_ratio |-> TextureRatio(detected_score, aoi_score) ]

(***************************************************************************)
(* filter_aois_by_texture                                                  *)
(***************************************************************************)
\* "'texture_data' not in aoi or aoi['texture_data'] is None"
NoTextureData(a) ==
    "texture_data" \notin DOMAIN a \/ a.texture_data = NoneData

\* the boundary slip: a value equal to its threshold is dropped
FailsThresholds_Inclusive(td, min_d, min_r, max_r) ==
    \/ min_d # NoThreshold /\ td.texture_difference <= min_d[1]
    \/ min_r # NoThreshold /\ td.texture_ratio <= min_r[1]
    \/ max_r # NoThreshold /\ td.texture_ratio >= max_r[1]

\* the three "if ... is not None and ...: continue" tests
FailsThresholds(td, min_d, min_r, max_r) ==
    \/ min_d # NoThreshold /\ td.texture_difference < min_d[1]
    \/ min_r # NoThreshold /\ td.texture_ratio < min_r[1]
    \/ max_r # NoThreshold /\ td.texture_ratio > max_r[1]

\* the loop body from element i on, `acc` being the list `filtered`
RECURSIVE FilterLoop(_, _, _, _, _, _)
FilterLoop(list, i, acc, min_d, min_r, max_r) ==
    IF i > Len(list) THEN acc
    ELSE IF NoTextureData(list[i])
         THEN FilterLoop(list, i + 1, Append(acc, list[i]), min_d, min_r, max_r)
    ELSE IF FailsThresholds(list[i].texture_data, min_d, min_r, max_r)
         THEN FilterLoop(list, i + 1, acc, min_d, min_r, max_r)
    ELSE FilterLoop(list, i + 1, Append(acc, list[i]), min_d, min_r, max_r)

\* filter_aois_by_texture(aois, min_difference, min_ratio, max_ratio)
FilterAoisByTexture(list, min_d, min_r, max_r) ==
    FilterLoop(list, 1, <<>>, min_d, min_r, max_r)

(***************************************************************************)
(* LABColorRangeService.process_image                                      *)
(*                                                                         *)
(* An image is a strip of LabW pixels already in OpenCV LAB (the result of *)
(* cv2.cvtColor(img, COLOR_BGR2LAB)); picker values (l, a, b and the       *)
(* tolerances) are fixed point, v standing for v / Scale.                  *)
(***************************************************************************)
LabW == 3
ByteMax == 255
ABScale == 128
DefaultThreshold == 25

NoColor == <<>>
NoRanges == <<>>
NoValue == <<>>
Some(v) == <<v>>

\* the steps of process_image that can raise
Faults == {"none", "cvtColor", "bounds", "identify", "output_path", "store_mask"}

\* str(e) of the exception a step raises; an exception constructed without
\* arguments (a bare MemoryError, say) has the empty string
ExcMessages == {"", "error"}

\* AnalysisResult(full_path, mask_path, output_dir, areas_of_interest,
\*                base_contour_count, error_message): unset fields are None
AnalysisResult(full_path, mask_path, areas_of_interest, base_contour_count, error_message) ==
    [ full_path |-> full_path, mask_path |-> mask_path,
      areas_of_interest |-> areas_of_interest,
      base_contour_count |-> base_contour_count,
      error_message |-> error_message ]

\* AnalysisResult(full_path, error_message=...)
ErrorResult(full_path, msg) ==
    AnalysisResult(full_path, NoValue, <<>>, NoValue, Some(msg))

\* a slip: a symmetric band, the minus tolerance used on both sides
LabRangeBounds_Symmetric(r) ==
    LET l_center == (r.l * ByteMax) \div Scale
        a_center == ((r.a + Scale) * 1275) \div (10 * Scale)
        b_center == ((r.b + Scale) * 1275) \div (10 * Scale)
        l_low == Max2(0, l_center - (r.l_minus * ByteMax) \div Scale)
        l_high == Min2(ByteMax, l_center + (r.l_minus * ByteMax) \div Scale)
        a_low == Max2(0, a_center - (r.a_minus * ABScale) \div Scale)
        a_high == Min2(ByteMax, a_center + (r.a_minus * ABScale) \div Scale)
        b_low == Max2(0, b_center - (r.b_minus * ABScale) \div Scale)
        b_high == Min2(ByteMax, b_center + (r.b_minus * ABScale) \div Scale)
    IN << <<l_low, a_low, b_low>>, <<l_high, a_high, b_high>> >>

\* lines 41-56: the window in OpenCV LAB units, <<lower_bound, upper_bound>>
LabRangeBounds(r) ==
    LET l_center == (r.l * ByteMax) \div Scale
        a_center == ((r.a + Scale) * 1275) \div (10 * Scale)
        b_center == ((r.b + Scale) * 1275) \div (10 * Scale)
        l_low == Max2(0, l_center - (r.l_minus * ByteMax) \div Scale)
        l_high == Min2(ByteMax, l_center + (r.l_plus * ByteMax) \div Scale)
        a_low == Max2(0, a_center - (r.a_minus * ABScale) \div Scale)
        a_high == Min2(ByteMax, a_center + (r.a_plus * ABScale) \div Scale)
        b_low == Max2(0, b_center - (r.b_minus * ABScale) \div Scale)
        b_high == Min2(ByteMax, b_center + (r.b_plus * ABScale) \div Scale)
    IN << <<l_low, a_low, b_low>>, <<l_high, a_high, b_high>> >>

\* ColorUtils.get_lab_color_range(target, l_threshold, a_threshold, b_threshold)
GetLabColorRange(target, lt, at, bt) ==
    << <<Max2(0, target[1] - lt), Max2(0, target[2] - at), Max2(0, target[3] - bt)>>,
       <<Min2(ByteMax, target[1] + lt), Min2(ByteMax, target[2] + at),
         Min2(ByteMax, target[3] + bt)>> >>

\* lines 31-76 for a target colour and an options dict
MaskBoundsOf(target, opts) ==
    IF opts.lab_ranges # NoRanges
    THEN LabRangeBounds(opts.lab_ranges[1])
    ELSE GetLabColorRange(target, opts.l_threshold, opts.a_threshold,
                          opts.b_threshold)

\* the bound pair process_image thresholds with (lines 31-76)
MaskBounds == MaskBoundsOf(target_color_lab, options)

\* cv2.inRange(lab_image, lower_bound, upper_bound): the selected pixels
InRange(img, bounds) ==
    { x \in DOMAIN img :
        \A c \in 1 .. 3 : bounds[1][c] <= img[x][c] /\ img[x][c] <= bounds[2][c] }

\* cv2.findContours(mask, RETR_EXTERNAL, ...): the maximal runs of the mask,
\* each given as <<first, last>>
FindContours(mask) ==
    { <<i, j>> \in (1 .. LabW) \X (1 .. LabW) :
        /\ i <= j
        /\ \A x \in i .. j : x \in mask
        /\ (i - 1) \notin mask
        /\ (j + 1) \notin mask }

\* the contour list in left-to-right order
RECURSIVE ContourSeq(_)
ContourSeq(cs) ==
    IF cs = {} THEN <<>>
    ELSE LET c == CHOOSE c \in cs : \A o \in cs : c[1] <= o[1]
         IN <<c>> \o ContourSeq(cs \ {c})

\* AlgorithmService.identify_areas_of_interest(img, contours):
\* <<areas_of_interest, base_contour_count>>
IdentifyAreasOfInterest(contours) ==
    LET all == ContourSeq(contours)
        area(c) == c[2] - c[1] + 1
        big == SelectSeq(all, LAMBDA c : area(c) >= min_area)
    IN << [ k \in DOMAIN big |->
              [ center |-> (big[k][1] + big[k][2]) \div 2,
                radius |-> area(big[k]) \div 2, area |-> area(big[k]) ] ],
          Len(all) >>

\* a slip: the mask is stored for every image
ShouldStoreMask_Always(areas_of_interest) == TRUE

\* "if areas_of_interest:" (line 86)
ShouldStoreMask(areas_of_interest) == areas_of_interest # <<>>

\* the try body, lines 24-90, `fault` naming the step that raises and
\* `msg` the str() of what it raises: [ exc, result, mask_written ]
ProcessImageBody(img, full_path, fault, msg) ==
    LET Raise(step) == [ exc |-> Some(msg), result |-> NoValue, mask_written |-> FALSE ]
        Return(res, written) ==
            [ exc |-> NoValue, result |-> Some(res), mask_written |-> written ]
    IN IF target_color_lab = NoColor
       THEN Return(ErrorResult(full_path, "No color selected for LAB Filter"), FALSE)
       ELSE IF fault = "cvtColor" THEN Raise("cvtColor")
       ELSE IF fault = "bounds" THEN Raise("bounds")
       ELSE
         LET mask == InRange(img, MaskBounds)
             contours == FindContours(mask)
         IN IF fault = "identify" THEN Raise("identify")
            ELSE
              LET found == IdentifyAreasOfInterest(contours)
                  areas_of_interest == found[1]
                  base_contour_count == found[2]
              IN IF fault = "output_path" THEN Raise("output_path")
                 ELSE IF ShouldStoreMask(areas_of_interest)
                 THEN IF fault = "store_mask" THEN Raise("store_mask")
                      ELSE Return(AnalysisResult(full_path, Some(full_path),
                                      areas_of_interest, Some(base_contour_count),
                                      NoValue), TRUE)
                 ELSE Return(AnalysisResult(full_path, NoValue, areas_of_interest,
                                 Some(base_contour_count), NoValue), FALSE)

\* a slip: no handler, the exception leaves process_image
HandleException_Propagates(outcome, full_path) ==
    [ raised |-> outcome.exc # NoValue,
      result |-> outcome.result,
      mask_written |-> outcome.mask_written ]

\* "except Exception as e: ... return AnalysisResult(full_path,
\*  error_message=str(e))" (lines 92-94)
HandleException(outcome, full_path) ==
    IF outcome.exc # NoValue
    THEN [ raised |-> FALSE,
           result |-> Some(ErrorResult(full_path, outcome.exc[1])),
           mask_written |-> outcome.mask_written ]
    ELSE [ raised |-> FALSE, result |-> outcome.result,
           mask_written |-> outcome.mask_written ]

\* process_image(img, full_path, input_dir, output_dir)
ProcessImage(img, full_path, fault, msg) ==
    HandleException(ProcessImageBody(img, full_path, fault, msg), full_path)

(***************************************************************************)
(* Idle values of the parts a specification does not exercise              *)
(***************************************************************************)
TextureIdle ==
    /\ image = <<>>
    /\ aoi = None
    /\ texture_data = "none"
    /\ texPc = "idle"

FilterIdle ==
    /\ aois = <<>>
    /\ input_aois = <<>>
    /\ min_difference = NoThreshold
    /\ min_ratio = NoThreshold
    /\ max_ratio = NoThreshold
    /\ filtered = <<>>
    /\ refiltered = <<>>
    /\ filterPc = "idle"

LabIdle ==
    /\ target_color_lab = NoColor
    /\ options = <<>>
    /\ min_area = 0
    /\ last = <<>>
    /\ n_processed = 0
    /\ n_errors = 0
    /\ labPc = "idle"

MainWindowIdle ==
    /\ startButton = FALSE
    /\ cancelButton = FALSE
    /\ viewResultsButton = FALSE
    /\ selectedColor = None
    /\ hasColorRange = FALSE
    /\ activeAlgorithm = "ColorRange"
    /\ hasLabWindow = FALSE
    /\ inputFolderLine = ""
    /\ outputFolderLine = ""
    /\ analyzeService = <<>>
    /\ nServices = 0
    /\ nThreads = 0
    /\ worker = "none"
    /\ warned = FALSE
    /\ endedByCancel = FALSE
    /\ events = <<>>
    /\ dialog = "none"
    /\ errorShown = ""
    /\ summary = <<>>
    /\ results_path = ""
    /\ lastHandler = "idle"
    /\ loadedXml = <<>>
    /\ logged = {}

ScoreIdle ==
    /\ features = <<>>
    /\ score = <<>>
    /\ scorePc = "idle"

ThermalIdle ==
    /\ temperatureUnit = "Celsius"
    /\ spinUnit = "Celsius"
    /\ minTempSpinBox = 0
    /\ maxTempSpinBox = 0
    /\ thermalOptions = <<>>
    /\ thermalPc = "idle"

AoiIdle ==
    /\ images = <<>>
    /\ xml_images = <<>>
    /\ flagged_aois = <<>>
    /\ selected_aoi_index = -1
    /\ current_image = 0
    /\ filter_flagged_only = FALSE

DlgIdle ==
    /\ picker = <<>>
    /\ preview_timer = FALSE
    /\ preview = <<>>
    /\ lab_window = <<>>
    /\ detector_bounds = <<>>
    /\ dlgPc = "idle"

BatchIdle ==
    /\ batch_image = <<>>
    /\ batch_aois = <<>>
    /\ batch_input = <<>>
    /\ batch_i = 0
    /\ batch_result = <<>>
    /\ batchPc = "idle"

MaskIdle ==
    /\ mask_aois = <<>>
    /\ mask_file = ""
    /\ mask_band = <<>>
    /\ loaded = <<>>

CaIdle ==
    /\ image_files = <<>>
    /\ setup_fault = "none"
    /\ cancelled = FALSE
    /\ caPc = "idle"
    /\ idx = 0
    /\ processed_count = 0
    /\ outputs = {}
    /\ emitted = <<>>
    /\ sig_done_count = <<>>
    /\ flag_reads = {}
    /\ started = {}
    /\ cancel_after = <<>>

AoiListIdle ==
    /\ list_aois = 0
    /\ list_flagged = {}
    /\ list_filter = FALSE
    /\ list_selected = -1
    /\ aoi_containers = <<>>

notScore ==
    <<texVars,
      filterVars,
      labVars,
      mwVars,
      thermalVars,
      aoiVars,
      dlgVars,
      batchVars,
      maskVars,
      caVars,
      aoiListVars>>

IdleButScore ==
    /\ TextureIdle
    /\ FilterIdle
    /\ LabIdle
    /\ MainWindowIdle
    /\ ThermalIdle
    /\ AoiIdle
    /\ DlgIdle
    /\ BatchIdle
    /\ MaskIdle
    /\ CaIdle
    /\ AoiListIdle

notThermal ==
    <<texVars,
      filterVars,
      labVars,
      mwVars,
      scoreVars,
      aoiVars,
      dlgVars,
      batchVars,
      maskVars,
      caVars,
      aoiListVars>>

IdleButThermal ==
    /\ TextureIdle
    /\ FilterIdle
    /\ LabIdle
    /\ MainWindowIdle
    /\ ScoreIdle
    /\ AoiIdle
    /\ DlgIdle
    /\ BatchIdle
    /\ MaskIdle
    /\ CaIdle
    /\ AoiListIdle

notAoi ==
    <<texVars,
      filterVars,
      labVars,
      mwVars,
      scoreVars,
      thermalVars,
      dlgVars,
      batchVars,
      maskVars,
      caVars,
      aoiListVars>>

IdleButAoi ==
    /\ TextureIdle
    /\ FilterIdle
    /\ LabIdle
    /\ MainWindowIdle
    /\ ScoreIdle
    /\ ThermalIdle
    /\ DlgIdle
    /\ BatchIdle
    /\ MaskIdle
    /\ CaIdle
    /\ AoiListIdle

notDlg ==
    <<texVars,
      filterVars,
      labVars,
      mwVars,
      scoreVars,
      thermalVars,
      aoiVars,
      batchVars,
      maskVars,
      caVars,
      aoiListVars>>

IdleButDlg ==
    /\ TextureIdle
    /\ FilterIdle
    /\ LabIdle
    /\ MainWindowIdle
    /\ ScoreIdle
    /\ ThermalIdle
    /\ AoiIdle
    /\ BatchIdle
    /\ MaskIdle
    /\ CaIdle
    /\ AoiListIdle

notBatch ==
    <<texVars,
      filterVars,
      labVars,
      mwVars,
      scoreVars,
      thermalVars,
      aoiVars,
      dlgVars,
      maskVars,
      caVars,
      aoiListVars>>

IdleButBatch ==
    /\ TextureIdle
    /\ FilterIdle
    /\ LabIdle
    /\ MainWindowIdle
    /\ ScoreIdle
    /\ ThermalIdle
    /\ AoiIdle
    /\ DlgIdle
    /\ MaskIdle
    /\ CaIdle
    /\ AoiListIdle

notMask ==
    <<texVars,
      filterVars,
      labVars,
      mwVars,
      scoreVars,
      thermalVars,
      aoiVars,
      dlgVars,
      batchVars,
      caVars,
      aoiListVars>>

IdleButMask ==
    /\ TextureIdle
    /\ FilterIdle
    /\ LabIdle
    /\ MainWindowIdle
    /\ ScoreIdle
    /\ ThermalIdle
    /\ AoiIdle
    /\ DlgIdle
    /\ BatchIdle
    /\ CaIdle
    /\ AoiListIdle

notCa ==
    <<texVars,
      filterVars,
      labVars,
      mwVars,
      scoreVars,
      thermalVars,
      aoiVars,
      dlgVars,
      batchVars,
      maskVars,
      aoiListVars>>

IdleButCa ==
    /\ TextureIdle
    /\ FilterIdle
    /\ LabIdle
    /\ MainWindowIdle
    /\ ScoreIdle
    /\ ThermalIdle
    /\ AoiIdle
    /\ DlgIdle
    /\ BatchIdle
    /\ MaskIdle
    /\ AoiListIdle

notAoiList ==
    <<texVars,
      filterVars,
      labVars,
      mwVars,
      scoreVars,
      thermalVars,
      aoiVars,
      dlgVars,
      batchVars,
      maskVars,
      caVars>>

IdleButAoiList ==
    /\ TextureIdle
    /\ FilterIdle
    /\ LabIdle
    /\ MainWindowIdle
    /\ ScoreIdle
    /\ ThermalIdle
    /\ AoiIdle
    /\ DlgIdle
    /\ BatchIdle
    /\ MaskIdle
    /\ CaIdle

ExtIdle ==
    /\ ScoreIdle
    /\ ThermalIdle
    /\ AoiIdle
    /\ DlgIdle
    /\ BatchIdle
    /\ MaskIdle
    /\ CaIdle
    /\ AoiListIdle

(***************************************************************************)
(* SpecTexture: one call of calculate_aoi_textures on a drawn input        *)
(***************************************************************************)
InitTexture ==
    /\ image \in Images
    /\ aoi \in Aois
    /\ texture_data = "none"
    /\ texPc = "input"
    /\ FilterIdle
    /\ LabIdle
    /\ MainWindowIdle
    /\ ExtIdle

DoCalculateAoiTextures ==
    /\ texPc = "input"
    /\ texture_data' = CalculateAoiTextures(image, aoi)
    /\ texPc' = "done"
    /\ UNCHANGED <<image, aoi, filterVars, labVars, mwVars, extVars>>

NextTexture == DoCalculateAoiTextures

SpecTexture == InitTexture /\ [][NextTexture]_vars

(***************************************************************************)
(* SpecFilter: filter_aois_by_texture on a drawn list, then on its result  *)
(***************************************************************************)
MaxAois == 2

DiffVals == {0, 1}
RatioVals == {0, 1, 2}
ThresholdVals == {NoThreshold, <<1>>}

\* drawn for an AOI that has no 'texture_data' key at all
MissingKey == [ missing |-> TRUE ]

\* an AOI of the list: its position when drawn, and its texture data
\* (key missing, None, or a record)
FilterAoi(k, td) ==
    IF td = MissingKey THEN [ id |-> k ] ELSE [ id |-> k, texture_data |-> td ]

TextureDatas ==
    {MissingKey, NoneData}
      \cup [ texture_difference : DiffVals, texture_ratio : RatioVals ]

AoiLists ==
    UNION { { [ k \in 1 .. n |-> FilterAoi(k, tds[k]) ] :
                tds \in [ 1 .. n -> TextureDatas ] } : n \in 0 .. MaxAois }

InitFilter ==
    /\ aois \in AoiLists
    /\ input_aois = aois
    /\ min_difference \in ThresholdVals
    /\ min_ratio \in ThresholdVals
    /\ max_ratio \in ThresholdVals
    /\ filtered = <<>>
    /\ refiltered = <<>>
    /\ filterPc = "input"
    /\ TextureIdle
    /\ LabIdle
    /\ MainWindowIdle
    /\ ExtIdle

DoFilter ==
    /\ filterPc = "input"
    /\ filtered' = FilterAoisByTexture(aois, min_difference, min_ratio, max_ratio)
    /\ filterPc' = "filtered"
    /\ UNCHANGED <<aois, input_aois, min_difference, min_ratio, max_ratio,
                   refiltered, texVars, labVars, mwVars, extVars>>

DoFilterAgain ==
    /\ filterPc = "filtered"
    /\ refiltered' = FilterAoisByTexture(filtered, min_difference, min_ratio, max_ratio)
    /\ filterPc' = "refiltered"
    /\ UNCHANGED <<aois, input_aois, min_difference, min_ratio, max_ratio,
                   filtered, texVars, labVars, mwVars, extVars>>

NextFilter == DoFilter \/ DoFilterAgain

SpecFilter == InitFilter /\ [][NextFilter]_vars

(***************************************************************************)
(* SpecLab: a LABColorRangeService processing a batch of drawn images      *)
(***************************************************************************)
MaxImages == 2

\* OpenCV LAB pixel values: mid gray, a red, white
LabColors == { <<128, 128, 128>>, <<136, 208, 195>>, <<255, 128, 128>> }

LabImages == [ 1 .. LabW -> LabColors ]

\* picker centres (l in [0,1], a and b in [-1,1]) and tolerance profiles
PickerCentres == { <<500, 0, 0>>, <<533, 627, 522>> }
Tolerances == { <<0, 0>>, <<10, 40>>, <<1000, 1000>> }

LabRanges ==
    { [ l |-> c[1], a |-> c[2], b |-> c[3],
        l_minus |-> t[1], l_plus |-> t[2], a_minus |-> t[1], a_plus |-> t[2],
        b_minus |-> t[1], b_plus |-> t[2] ] : c \in PickerCentres, t \in Tolerances }

LabOptions ==
    { [ lab_ranges |-> r, l_threshold |-> th, a_threshold |-> th, b_threshold |-> th ] :
        r \in {NoRanges} \cup { Some(x) : x \in LabRanges },
        th \in {0, DefaultThreshold} }

InitLab ==
    /\ target_color_lab \in {NoColor} \cup LabColors
    /\ options \in LabOptions
    /\ min_area \in 1 .. 2
    /\ last = <<>>
    /\ n_processed = 0
    /\ n_errors = 0
    /\ labPc = "ready"
    /\ TextureIdle
    /\ FilterIdle
    /\ MainWindowIdle
    /\ ExtIdle

\* the batch dispatches the next image (and, for the model, the step of
\* process_image that will raise on it and the text of the exception)
DoDispatch ==
    /\ labPc = "ready"
    /\ n_processed < MaxImages
    /\ \E img \in LabImages, fault \in Faults, msg \in ExcMessages :
         /\ fault = "none" => msg = ""
         /\ last' = << [ img |-> img, fault |-> fault, msg |-> msg,
                         out |-> NoValue ] >>
    /\ labPc' = "dispatched"
    /\ UNCHANGED <<target_color_lab, options, min_area, n_processed, n_errors,
                   texVars, filterVars, mwVars, extVars>>

\* process_image runs on the dispatched image; an exception leaving it
\* aborts the batch
DoProcessImage ==
    /\ labPc = "dispatched"
    /\ LET out == ProcessImage(last[1].img, n_processed + 1, last[1].fault,
                               last[1].msg)
       IN /\ last' = << [ last[1] EXCEPT !.out = Some(out) ] >>
          /\ labPc' = IF out.raised THEN "aborted" ELSE "returned"
    /\ UNCHANGED <<target_color_lab, options, min_area, n_processed, n_errors,
                   texVars, filterVars, mwVars, extVars>>

\* the batch takes the returned AnalysisResult and goes on to the next image
DoCollect ==
    /\ labPc = "returned"
    /\ n_processed' = n_processed + 1
    /\ n_errors' = IF last[1].out[1].result[1].error_message # NoValue
                   THEN n_errors + 1 ELSE n_errors
    /\ last' = <<>>
    /\ labPc' = "ready"
    /\ UNCHANGED <<target_color_lab, options, min_area, texVars, filterVars, mwVars, extVars>>

NextLab == DoDispatch \/ DoProcessImage \/ DoCollect

SpecLab == InitLab /\ [][NextLab]_vars

(***************************************************************************)
(* SpecScore: _calculate_composite_score on drawn feature values           *)
(***************************************************************************)
\* contrast and dissimilarity are >= 0; homogeneity and energy lie in [0,1]
ContrastVals == {0, 3 * Scale, 10 * Scale, 10 * Scale + 1, 25 * Scale}
DissimilarityVals == {0, 2 * Scale, 5 * Scale, 5 * Scale + 1, 9 * Scale}
UnitVals == {0, Scale \div 4, Scale \div 2, Scale}

FeatureInputs ==
    [ contrast : ContrastVals, dissimilarity : DissimilarityVals,
      homogeneity : UnitVals, energy : UnitVals ]

InitScore ==
    /\ features \in FeatureInputs
    /\ score = <<>>
    /\ scorePc = "input"
    /\ IdleButScore

DoCalculateCompositeScore ==
    /\ scorePc = "input"
    /\ score' = << CompositeScore(features) >>
    /\ scorePc' = "done"
    /\ UNCHANGED <<features, notScore>>

NextScore == DoCalculateCompositeScore

SpecScore == InitScore /\ [][NextScore]_vars

(***************************************************************************)
(* SpecThermal: the ThermalRange widget, its spin boxes and getOptions     *)
(***************************************************************************)
TemperatureUnits == {"Celsius", "Fahrenheit"}

\* spin-box values the operator enters (inside the Fahrenheit ranges
\* convertTemperatureRanges sets)
TempVals == {-20, 32, 95, 105, 120, 200}

\* the range <<minimum, maximum>> of a spin box of a Celsius widget, set by
\* the .ui file: wide enough for every value entered here
UiTempRange == <<-20, 200>>

\* convertTemperatureRanges, lines 104-105 and 108-109: the ranges of the
\* two spin boxes of a widget built under `unit`
MinTempRange(unit) == IF unit = "Fahrenheit" THEN <<-20, 120>> ELSE UiTempRange

MaxTempRange(unit) == IF unit = "Fahrenheit" THEN <<-20, 200>> ELSE UiTempRange

\* QSpinBox.setValue: the value is clamped to the box's range
SetValue(range, value) == Max2(range[1], Min2(range[2], value))

\* updateMinTemp with the boxes at minv / maxv: <<minimum, maximum>> after
UpdateMinTemp(unit, minv, maxv) ==
    << minv, IF minv > maxv THEN SetValue(MaxTempRange(unit), minv) ELSE maxv >>

\* a slip: updateMaxTemp leaves both boxes alone
UpdateMaxTemp_NoChange(unit, minv, maxv) == << minv, maxv >>

\* updateMaxTemp with the boxes at minv / maxv: <<minimum, maximum>> after
UpdateMaxTemp(unit, minv, maxv) ==
    << IF minv > maxv THEN SetValue(MinTempRange(unit), maxv) ELSE minv, maxv >>

\* convertFahrenheitToCelsius: (value - 32) / 1.8000
ConvertFahrenheitToCelsius(value) == ((value - 32) * Scale * 10) \div 18

\* getOptions, lines 36-41: one temperature option under the setting `unit`
ToCelsius(unit, value) ==
    IF unit = "Fahrenheit" THEN ConvertFahrenheitToCelsius(value)
    ELSE value * Scale

\* getOptions
GetOptions ==
    [ minTemp |-> ToCelsius(temperatureUnit, minTempSpinBox),
      maxTemp |-> ToCelsius(temperatureUnit, maxTempSpinBox) ]

\* __init__: a widget constructed under the setting; in Fahrenheit
\* convertTemperatureRanges sets 95 / 105, otherwise the .ui defaults stay
InitThermal ==
    /\ temperatureUnit \in TemperatureUnits
    /\ spinUnit = temperatureUnit
    /\ IF temperatureUnit = "Fahrenheit"
       THEN minTempSpinBox = 95 /\ maxTempSpinBox = 105
       ELSE minTempSpinBox = 32 /\ maxTempSpinBox = 95
    /\ thermalOptions = <<>>
    /\ thermalPc = "editing"
    /\ IdleButThermal

\* the operator edits the minimum; editingFinished runs updateMinTemp
EditMinTemp ==
    /\ \E v \in TempVals :
         /\ v = SetValue(MinTempRange(spinUnit), v)
         /\ minTempSpinBox' = UpdateMinTemp(spinUnit, v, maxTempSpinBox)[1]
         /\ maxTempSpinBox' = UpdateMinTemp(spinUnit, v, maxTempSpinBox)[2]
    /\ thermalPc' = "min_edited"
    /\ UNCHANGED <<temperatureUnit, spinUnit, thermalOptions, notThermal>>

\* the operator edits the maximum; editingFinished runs updateMaxTemp
EditMaxTemp ==
    /\ \E v \in TempVals :
         /\ v = SetValue(MaxTempRange(spinUnit), v)
         /\ minTempSpinBox' = UpdateMaxTemp(spinUnit, minTempSpinBox, v)[1]
         /\ maxTempSpinBox' = UpdateMaxTemp(spinUnit, minTempSpinBox, v)[2]
    /\ thermalPc' = "max_edited"
    /\ UNCHANGED <<temperatureUnit, spinUnit, thermalOptions, notThermal>>

\* the preferences dialog stores another temperature unit; the widget that
\* is already on screen is not rebuilt
SetTemperatureUnit ==
    /\ \E u \in TemperatureUnits \ {temperatureUnit} : temperatureUnit' = u
    /\ thermalPc' = "editing"
    /\ UNCHANGED <<spinUnit, minTempSpinBox, maxTempSpinBox, thermalOptions,
                   notThermal>>

\* startButtonClicked asks the widget for its options
DoGetOptions ==
    /\ thermalOptions' = << GetOptions >>
    /\ thermalPc' = "options"
    /\ UNCHANGED <<temperatureUnit, spinUnit, minTempSpinBox, maxTempSpinBox,
                   notThermal>>

NextThermal == EditMinTemp \/ EditMaxTemp \/ SetTemperatureUnit \/ DoGetOptions

SpecThermal == InitThermal /\ [][NextThermal]_vars

(***************************************************************************)
(* SpecAoi: the viewer's AOI controller and its flags                      *)
(***************************************************************************)
MaxViewerImages == 2
MaxViewerAois == 2    \* AOIs of one results file, all images together

\* an AOI record of the results file; `fl` says whether it carries a
\* flagged entry and which
AoiRecord(k, fl) ==
    LET base == [ center |-> <<10 * k, 5>>, radius |-> k + 1, area |-> 3 * k + 4,
                  detected_pixels |-> << <<10 * k, 5>>, <<10 * k + 1, 5>> >> ]
    IN IF fl = "missing" THEN base
       ELSE [ center |-> base.center, radius |-> base.radius, area |-> base.area,
              detected_pixels |-> base.detected_pixels, flagged |-> (fl = "True") ]

\* the AOI lists of a results file: an AOI is flagged or carries no flagged
\* entry (an entry of False reads the same through aoi.get('flagged', False)
\* and arises here once an AOI has been flagged and unflagged)
AoiListsOfViewer ==
    UNION { { [ k \in 0 .. m - 1 |-> AoiRecord(k, fl[k]) ] :
                fl \in [ 0 .. m - 1 -> {"missing", "True"} ] } :
            m \in 0 .. MaxViewerAois }

RECURSIVE AoiCount(_, _)
AoiCount(imgs, n) ==
    IF n = 0 THEN 0
    ELSE Cardinality(DOMAIN imgs[n - 1].areas_of_interest) + AoiCount(imgs, n - 1)

ViewerImages ==
    UNION { { imgs \in [ 0 .. n - 1 ->
                          { [ areas_of_interest |-> l ] : l \in AoiListsOfViewer } ] :
                AoiCount(imgs, n) <= MaxViewerAois } :
            n \in 1 .. MaxViewerImages }

\* aoi.get('flagged', False)
GetFlagged(a) == IF "flagged" \in DOMAIN a THEN a.flagged ELSE FALSE

\* initialize_from_xml: the dict built from the records
InitializeFromXml(imgs) ==
    LET flaggedOf(i) ==
            { k \in DOMAIN imgs[i].areas_of_interest :
                GetFlagged(imgs[i].areas_of_interest[k]) }
        keys == { i \in DOMAIN imgs : flaggedOf(i) # {} }
    IN [ i \in keys |-> flaggedOf(i) ]

\* the record with aoi['flagged'] = is_flagged
SetFlagged(a, is_flagged) ==
    [ center |-> a.center, radius |-> a.radius, area |-> a.area,
      detected_pixels |-> a.detected_pixels, flagged |-> is_flagged ]

\* a slip: the flag is written to the first AOI of the image
SaveFlaggedAoiToXml_FirstAoi(imgs, image_index, aoi_index, is_flagged) ==
    IF /\ image_index \in DOMAIN imgs
       /\ aoi_index \in DOMAIN imgs[image_index].areas_of_interest
    THEN [ imgs EXCEPT ![image_index].areas_of_interest[0] =
               SetFlagged(@, is_flagged) ]
    ELSE imgs

\* save_flagged_aoi_to_xml: the images after it
SaveFlaggedAoiToXml(imgs, image_index, aoi_index, is_flagged) ==
    IF /\ image_index \in DOMAIN imgs
       /\ aoi_index \in DOMAIN imgs[image_index].areas_of_interest
    THEN [ imgs EXCEPT ![image_index].areas_of_interest[aoi_index] =
               SetFlagged(@, is_flagged) ]
    ELSE imgs

\* self.flagged_aois.get(img_idx, set())
FlaggedSet(i) == IF i \in DOMAIN flagged_aois THEN flagged_aois[i] ELSE {}

\* load_areas_of_interest: the AOI indices that get a container
VisibleAois ==
    { k \in DOMAIN images[current_image].areas_of_interest :
        ~filter_flagged_only \/ k \in FlaggedSet(current_image) }

InitAoi ==
    /\ images \in ViewerImages
    /\ xml_images = images
    /\ flagged_aois = InitializeFromXml(images)
    /\ selected_aoi_index = -1
    /\ current_image = 0
    /\ filter_flagged_only = FALSE
    /\ IdleButAoi

\* select_aoi(aoi_index, visible_index): a click on one of the listed AOIs
SelectAoi ==
    /\ \E aoi_index \in VisibleAois : selected_aoi_index' = aoi_index
    /\ UNCHANGED <<images, xml_images, flagged_aois, current_image,
                   filter_flagged_only, notAoi>>

\* a slip: the toggle only ever adds the index
ToggledSet_AddOnly(flagged_set, aoi_index) == flagged_set \cup {aoi_index}

\* toggle_aoi_flag, lines 547-551: the flagged set after the toggle
ToggledSet(flagged_set, aoi_index) ==
    IF aoi_index \notin flagged_set
    THEN flagged_set \cup {aoi_index}
    ELSE flagged_set \ {aoi_index}

\* toggle_aoi_flag called with flagged_aois = fa, parent.images = imgs,
\* parent.current_image = cur and selected_aoi_index = sel: what it leaves.
\* It returns at once when nothing is selected; otherwise the set of the
\* current image is created if missing and toggled, the record is written
\* through save_flagged_aoi_to_xml, the list is reloaded (selection reset
\* to -1) and the selection restored.
ToggleAoiFlagOf(fa, imgs, cur, sel) ==
    IF sel < 0
    THEN [ flagged_aois |-> fa, images |-> imgs, selected_aoi_index |-> sel ]
    ELSE LET flagged_set == IF cur \in DOMAIN fa THEN fa[cur] ELSE {}
             is_now_flagged == sel \notin flagged_set
         IN [ flagged_aois |->
                  [ i \in DOMAIN fa \cup {cur} |->
                      IF i = cur THEN ToggledSet(flagged_set, sel) ELSE fa[i] ],
              images |-> SaveFlaggedAoiToXml(imgs, cur, sel, is_now_flagged),
              selected_aoi_index |-> sel ]

\* toggle_aoi_flag (the F key)
ToggleAoiFlag ==
    /\ LET after == ToggleAoiFlagOf(flagged_aois, images, current_image,
                                    selected_aoi_index)
       IN /\ flagged_aois' = after.flagged_aois
          /\ images' = after.images
          /\ selected_aoi_index' = after.selected_aoi_index
    /\ UNCHANGED <<xml_images, current_image, filter_flagged_only, notAoi>>

\* the viewer shows another image; `reloads` says whether it rebuilds the
\* AOI list (load_areas_of_interest resets the selection) before the next
\* key press
ChangeImage ==
    /\ \E i \in DOMAIN images, reloads \in BOOLEAN :
         /\ i # current_image
         /\ current_image' = i
         /\ selected_aoi_index' = IF reloads THEN -1 ELSE selected_aoi_index
    /\ UNCHANGED <<images, xml_images, flagged_aois, filter_flagged_only, notAoi>>

\* toggle_flag_filter: the filter flips and the list is reloaded
ToggleFlagFilter ==
    /\ filter_flagged_only' = ~filter_flagged_only
    /\ selected_aoi_index' = -1
    /\ UNCHANGED <<images, xml_images, flagged_aois, current_image, notAoi>>

NextAoi ==
    \/ SelectAoi
    \/ ToggleAoiFlag
    \/ ChangeImage
    \/ ToggleFlagFilter

SpecAoi == InitAoi /\ [][NextAoi]_vars

(***************************************************************************)
(* SpecAoiList: the thumbnails load_areas_of_interest builds for one image *)
(***************************************************************************)
MaxListAois == 3

\* load_areas_of_interest, the loop of lines 275-435 from list position
\* `pos` on with the counter at `count`: an AOI the filter hides advances
\* the counter; an AOI whose thumbnail is skipped (the highlight viewer is
\* no longer valid, or setImage raises RuntimeError: lines 313-320) leaves
\* the iteration by `continue`, before count += 1; every other AOI gets a
\* container with property aoi_index = count.  A container is recorded
\* with the list position of its AOI.
RECURSIVE LoadLoop(_, _, _, _, _, _, _)
LoadLoop(pos, count, acc, n_aois, flagged_set, filtering, skipped) ==
    IF pos >= n_aois THEN acc
    ELSE IF filtering /\ count \notin flagged_set
    THEN LoadLoop(pos + 1, count + 1, acc, n_aois, flagged_set, filtering, skipped)
    ELSE IF pos \in skipped
    THEN LoadLoop(pos + 1, count, acc, n_aois, flagged_set, filtering, skipped)
    ELSE LoadLoop(pos + 1, count + 1,
                  Append(acc, [ aoi_index |-> count, position |-> pos ]),
                  n_aois, flagged_set, filtering, skipped)

\* load_areas_of_interest(image array, areas_of_interest, image_index): the
\* new aoi_containers
LoadAreasOfInterest(n_aois, flagged_set, filtering, skipped) ==
    LoadLoop(0, 0, <<>>, n_aois, flagged_set, filtering, skipped)

\* the viewer has shown an image of the results file: its flags come from
\* initialize_from_xml and every thumbnail was built
InitAoiList ==
    /\ list_aois \in 0 .. MaxListAois
    /\ list_flagged \in SUBSET (0 .. list_aois - 1)
    /\ list_filter = FALSE
    /\ list_selected = -1
    /\ aoi_containers = LoadAreasOfInterest(list_aois, list_flagged, FALSE, {})
    /\ IdleButAoiList

\* load_areas_of_interest, called again by the viewer for the image: the
\* selection is reset and the list rebuilt; `skipped` are the AOIs whose
\* thumbnail is skipped
ReloadAoiList ==
    /\ \E skipped \in SUBSET (0 .. list_aois - 1) :
         aoi_containers' = LoadAreasOfInterest(list_aois, list_flagged,
                                               list_filter, skipped)
    /\ list_selected' = -1
    /\ UNCHANGED <<list_aois, list_flagged, list_filter, notAoiList>>

\* handle_click of a displayed container: select_aoi(idx, vis_idx) with the
\* count captured when the container was built
HandleClick ==
    /\ \E v \in DOMAIN aoi_containers :
         list_selected' = aoi_containers[v].aoi_index
    /\ UNCHANGED <<list_aois, list_flagged, list_filter, aoi_containers,
                   notAoiList>>

\* toggle_aoi_flag on the list: the flag of selected_aoi_index flips, the
\* list is rebuilt and the selection restored
ToggleFlagOfSelected ==
    /\ list_selected >= 0
    /\ list_flagged' = IF list_selected \notin list_flagged
                       THEN list_flagged \cup {list_selected}
                       ELSE list_flagged \ {list_selected}
    /\ \E skipped \in SUBSET (0 .. list_aois - 1) :
         aoi_containers' = LoadAreasOfInterest(list_aois, list_flagged',
                                               list_filter, skipped)
    /\ list_selected' = list_selected
    /\ UNCHANGED <<list_aois, list_filter, notAoiList>>

\* toggle_flag_filter on the list: the filter flips and the list is rebuilt
ToggleFilterOfList ==
    /\ list_filter' = ~list_filter
    /\ \E skipped \in SUBSET (0 .. list_aois - 1) :
         aoi_containers' = LoadAreasOfInterest(list_aois, list_flagged,
                                               ~list_filter, skipped)
    /\ list_selected' = -1
    /\ UNCHANGED <<list_aois, list_flagged, notAoiList>>

NextAoiList ==
    \/ ReloadAoiList
    \/ HandleClick
    \/ ToggleFlagOfSelected
    \/ ToggleFilterOfList

SpecAoiList == InitAoiList /\ [][NextAoiList]_vars

(***************************************************************************)
(* SpecDlg: the LAB range dialog with its live preview, and the detector   *)
(* run on the window the dialog returned                                   *)
(***************************************************************************)
\* picker centres (l in [0,1], a and b in [-1,1])
DlgCentres ==
    { <<0, -1000, -1000>>, <<500, 0, 0>>, <<533, 627, 522>>, <<0, 1000, -1000>>,
      <<1000, 1000, 1000>> }

\* tolerances <<l_minus, l_plus, a_minus, a_plus, b_minus, b_plus>>
DlgRanges ==
    { <<0, 0, 0, 0, 0, 0>>, <<10, 40, 10, 40, 10, 40>>,
      <<1000, 0, 1000, 0, 1000, 0>>, <<0, 1000, 0, 1000, 0, 1000>>,
      <<40, 10, 0, 300, 2000, 5>>, <<1000, 1000, 1000, 1000, 1000, 1000>> }

\* LABRangePicker.get_lab_ranges
GetLabRanges(c, t) ==
    [ l |-> c[1], a |-> c[2], b |-> c[3],
      l_minus |-> t[1], l_plus |-> t[2], a_minus |-> t[3], a_plus |-> t[4],
      b_minus |-> t[5], b_plus |-> t[6] ]

\* update_preview, lines 205-226: <<lower_bound, upper_bound>>
UpdatePreviewBounds(lab_data) ==
    LET l_center == (lab_data.l * 255) \div Scale
        a_center == ((lab_data.a + Scale) * 1275) \div (10 * Scale)
        b_center == ((lab_data.b + Scale) * 1275) \div (10 * Scale)
        l_low == Max2(0, l_center - (lab_data.l_minus * 255) \div Scale)
        l_high == Min2(255, l_center + (lab_data.l_plus * 255) \div Scale)
        a_low == Max2(0, a_center - (lab_data.a_minus * 128) \div Scale)
        a_high == Min2(255, a_center + (lab_data.a_plus * 128) \div Scale)
        b_low == Max2(0, b_center - (lab_data.b_minus * 128) \div Scale)
        b_high == Min2(255, b_center + (lab_data.b_plus * 128) \div Scale)
    IN << <<l_low, a_low, b_low>>, <<l_high, a_high, b_high>> >>

\* process_image, lines 41-44: the centre in OpenCV LAB units
LabCentre(r) ==
    << (r.l * ByteMax) \div Scale,
       ((r.a + Scale) * 1275) \div (10 * Scale),
       ((r.b + Scale) * 1275) \div (10 * Scale) >>

\* the dialog as color_button_clicked opens it, an image loaded for preview
InitDlg ==
    /\ \E c \in DlgCentres, t \in DlgRanges : picker = GetLabRanges(c, t)
    /\ preview_timer = FALSE
    /\ preview = <<>>
    /\ lab_window = <<>>
    /\ detector_bounds = <<>>
    /\ dlgPc = "open"
    /\ IdleButDlg

\* on_color_changed(l, a, b): the picker holds the new centre and the
\* preview timer is restarted
OnColorChanged ==
    /\ dlgPc = "open"
    /\ \E c \in DlgCentres :
         picker' = [ picker EXCEPT !.l = c[1], !.a = c[2], !.b = c[3] ]
    /\ preview_timer' = TRUE
    /\ UNCHANGED <<preview, lab_window, detector_bounds, dlgPc, notDlg>>

\* on_range_changed(l_minus, ..., b_plus)
OnRangeChanged ==
    /\ dlgPc = "open"
    /\ \E t \in DlgRanges :
         picker' = [ picker EXCEPT !.l_minus = t[1], !.l_plus = t[2],
                                   !.a_minus = t[3], !.a_plus = t[4],
                                   !.b_minus = t[5], !.b_plus = t[6] ]
    /\ preview_timer' = TRUE
    /\ UNCHANGED <<preview, lab_window, detector_bounds, dlgPc, notDlg>>

\* the preview timer fires: update_preview
UpdatePreview ==
    /\ dlgPc = "open"
    /\ preview_timer
    /\ preview_timer' = FALSE
    /\ preview' = << [ lab_data |-> picker, bounds |-> UpdatePreviewBounds(picker) ] >>
    /\ UNCHANGED <<picker, lab_window, detector_bounds, dlgPc, notDlg>>

\* the dialog is accepted: color_button_clicked stores get_lab_ranges()
AcceptDialog ==
    /\ dlgPc = "open"
    /\ lab_window' = << picker >>
    /\ dlgPc' = "accepted"
    /\ UNCHANGED <<picker, preview_timer, preview, detector_bounds, notDlg>>

\* get_options hands _lab_window over as lab_ranges and process_image
\* computes its bounds from it
DetectWithWindow ==
    /\ dlgPc = "accepted"
    /\ detector_bounds' = << LabRangeBounds(lab_window[1]) >>
    /\ dlgPc' = "processed"
    /\ UNCHANGED <<picker, preview_timer, preview, lab_window, notDlg>>

\* color_button_clicked again: a new dialog on the stored window
ReopenDialog ==
    /\ dlgPc = "processed"
    /\ picker' = lab_window[1]
    /\ preview_timer' = FALSE
    /\ preview' = <<>>
    /\ detector_bounds' = <<>>
    /\ dlgPc' = "open"
    /\ UNCHANGED <<lab_window, notDlg>>

NextDlg ==
    \/ OnColorChanged
    \/ OnRangeChanged
    \/ UpdatePreview
    \/ AcceptDialog
    \/ DetectWithWindow
    \/ ReopenDialog

SpecDlg == InitDlg /\ [][NextDlg]_vars

(***************************************************************************)
(* SpecBatch: analyze_aoi_batch on a drawn image and AOI list              *)
(***************************************************************************)
BatchImages ==
    { [ p \in Pixels |-> IF (p[1] + p[2]) % 2 = 0 THEN 0 ELSE 200 ],
      [ p \in Pixels |-> 3 ] }

\* AOI dicts of the list: complete ones, one that still carries the
\* texture_data of an earlier analysis, and ones without 'center' or
\* 'radius', on which calculate_aoi_textures raises KeyError
BatchAois ==
    { [ center |-> <<1, 0>>, radius |-> 1, detected_pixels |-> Run(0, 0, 2) ],
      [ center |-> <<ImgW, 0>>, radius |-> 0, detected_pixels |-> {} ],
      [ center |-> <<2, 0>>, radius |-> 1, detected_pixels |-> Run(1, 1, 2),
        texture_data |-> NoneData ],
      [ radius |-> 1, detected_pixels |-> Run(0, 0, 1) ],
      [ center |-> <<1, 0>> ] }

BatchLists == UNION { [ 1 .. n -> BatchAois ] : n \in 0 .. MaxAois }

\* center = aoi['center']; radius = aoi['radius'] (lines 138-139)
CalculateAoiTexturesRaises(a) ==
    "center" \notin DOMAIN a \/ "radius" \notin DOMAIN a

\* aoi.get('detected_pixels', []) (line 140)
WithDetectedPixels(a) ==
    [ center |-> a.center, radius |-> a.radius,
      detected_pixels |-> IF "detected_pixels" \in DOMAIN a
                          THEN a.detected_pixels ELSE {} ]

\* aoi['texture_data'] = td
SetTextureData(a, td) ==
    [ k \in DOMAIN a \cup {"texture_data"} |->
        IF k = "texture_data" THEN td ELSE a[k] ]

\* a slip: an AOI whose analysis raises is left as it was
AnalyzeAoi_FailureSkipped(img, a) ==
    IF CalculateAoiTexturesRaises(a) THEN a
    ELSE SetTextureData(a, CalculateAoiTextures(img, WithDetectedPixels(a)))

\* the body of the for loop, lines 184-189: the AOI after it
AnalyzeAoi(img, a) ==
    IF CalculateAoiTexturesRaises(a) THEN SetTextureData(a, NoneData)
    ELSE SetTextureData(a, CalculateAoiTextures(img, WithDetectedPixels(a)))

InitBatch ==
    /\ batch_image \in BatchImages
    /\ batch_aois \in BatchLists
    /\ batch_input = batch_aois
    /\ batch_i = 1
    /\ batch_result = <<>>
    /\ batchPc = "loop"
    /\ IdleButBatch

\* one pass of "for aoi in aois"
AnalyzeNextAoi ==
    /\ batchPc = "loop"
    /\ batch_i <= Len(batch_aois)
    /\ batch_aois' = [ batch_aois EXCEPT ![batch_i] = AnalyzeAoi(batch_image, @) ]
    /\ batch_i' = batch_i + 1
    /\ UNCHANGED <<batch_image, batch_input, batch_result, batchPc, notBatch>>

\* "return aois"
ReturnAois ==
    /\ batchPc = "loop"
    /\ batch_i > Len(batch_aois)
    /\ batch_result' = << batch_aois >>
    /\ batchPc' = "returned"
    /\ UNCHANGED <<batch_image, batch_aois, batch_input, batch_i, notBatch>>

NextBatch == AnalyzeNextAoi \/ ReturnAois

SpecBatch == InitBatch /\ [][NextBatch]_vars

(***************************************************************************)
(* SpecMask: load_detected_pixels_from_mask on the mask of a stored image  *)
(***************************************************************************)
MaxAoiRadius == 2

\* squared distance of pixel <<x, y>> from a centre
DistSq(px, py, center) ==
    (px - center[1]) * (px - center[1]) + (py - center[2]) * (py - center[2])

\* AOIs as the extractor stores them: a connected run of detected pixels,
\* a centre on it, and a radius whose disk encloses every detected pixel
StoredAois ==
    { a \in [ center : Pixels, radius : 0 .. MaxAoiRadius,
              detected_pixels : { Run(p[1], p[2], n) : p \in Pixels, n \in 1 .. 2 } ] :
        /\ a.detected_pixels \subseteq Pixels
        /\ a.center \in a.detected_pixels
        /\ \A q \in a.detected_pixels :
             DistSq(q[1], q[2], a.center) <= a.radius * a.radius }

\* two detections are different connected components of the mask
Separate(a, b) ==
    \A p \in a.detected_pixels, q \in b.detected_pixels :
        Abs(p[1] - q[1]) > 1 \/ Abs(p[2] - q[2]) > 1

StoredAoiLists ==
    { <<a>> : a \in StoredAois }
      \cup { ab \in StoredAois \X StoredAois : Separate(ab[1], ab[2]) }

\* the detection mask of the image: non-zero at mask[y, x] for every
\* detected pixel <<x, y>>
StoredMask(list) ==
    [ rc \in { <<r, c>> : r \in 0 .. ImgH - 1, c \in 0 .. ImgW - 1 } |->
        IF \E k \in DOMAIN list : <<rc[2], rc[1]>> \in list[k].detected_pixels
        THEN MaskOn ELSE 0 ]

\* np.argwhere(mask > 0): the <<row, column>> pairs in row-major order,
\* from linear position n on
RECURSIVE ArgWhere(_, _)
ArgWhere(m, n) ==
    IF n >= ImgW * ImgH THEN <<>>
    ELSE LET rc == << n \div ImgW, n % ImgW >>
         IN (IF m[rc] > 0 THEN << rc >> ELSE <<>>) \o ArgWhere(m, n + 1)

\* detected_coords[:, [1, 0]].tolist(): [x, y] pairs
ToXY(coords) == [ k \in DOMAIN coords |-> << coords[k][2], coords[k][1] >> ]

\* load_detected_pixels_from_mask(mask_path, aoi), `file` telling what is
\* at mask_path and `m` the mask read from it
LoadDetectedPixelsFromMask(file, m, a) ==
    IF file = "" \/ file = "missing" THEN <<>>
    ELSE IF file = "unreadable" THEN <<>>
    ELSE LET detected_pixels == ToXY(ArgWhere(m, 0))
             inCircle(p) == DistSq(p[1], p[2], a.center) <= a.radius * a.radius
         IN SelectSeq(detected_pixels, inCircle)

InitMask ==
    /\ mask_aois \in StoredAoiLists
    /\ mask_file \in {"", "missing", "unreadable", "ok"}
    /\ mask_band = StoredMask(mask_aois)
    /\ loaded = <<>>
    /\ IdleButMask

\* process_xml_file, lines 162-164: the pixels of one AOI are loaded
DoLoadDetectedPixels ==
    /\ \E k \in DOMAIN mask_aois :
         loaded' = << [ aoi |-> k,
                        pixels |-> LoadDetectedPixelsFromMask(mask_file, mask_band,
                                                              mask_aois[k]) ] >>
    /\ UNCHANGED <<mask_aois, mask_file, mask_band, notMask>>

NextMask == DoLoadDetectedPixels

SpecMask == InitMask /\ [][NextMask]_vars

(***************************************************************************)
(* SpecCa: ChromaticAberrationRemovalService.process_images in its worker  *)
(* thread, and process_cancel called from the GUI thread                   *)
(***************************************************************************)
MaxCaImages == 2

\* how the iteration on a file goes: written, cv2.imread gives None, a
\* step inside the per-image try raises, or cv2.imwrite returns False
\* without having written the file
FileKinds == {"ok", "unreadable", "raises", "write_fails"}

\* the steps of process_images outside the per-image handler that can raise
SetupFaults == {"none", "listing", "makedirs", "service"}

\* a slip: the loop does not test the flag
BreaksOnCancel_Never(flag) == FALSE

\* "if self.cancelled:" at the head of the loop (line 97)
BreaksOnCancel(flag) == flag

\* the signals of one iteration (lines 101-141): sig_progress, the
\* "Processing i/n" message, then the message on corrected pixels, the
\* warning that the file could not be read, or the error message
IterationSignals == << "progress", "msg", "msg" >>

\* lines 81-82: the message and sig_done of a folder without images
NoFilesSignals == << "msg", "done" >>

\* a slip: the outer handler reports the error and emits no sig_done
OuterExceptSignals_NoDone == << "msg" >>

\* lines 150-151: the outer handler's message and sig_done
OuterExceptSignals == << "msg", "done" >>

\* lines 144-146: the closing message unless cancelled, then sig_done
CompletionSignals(flag) ==
    (IF ~flag THEN << "msg_success" >> ELSE <<>>) \o << "done" >>

\* "processed_count += 1" (line 137) is reached: nothing raised before it
\* and the file could be read; the result of cv2.imwrite is not looked at
CountsImage(kind) == kind \in {"ok", "write_fails"}

InitCa ==
    /\ image_files \in UNION { [ 1 .. n -> FileKinds ] : n \in 0 .. MaxCaImages }
    /\ setup_fault \in SetupFaults
    /\ cancelled = FALSE
    /\ caPc = "start"
    /\ idx = 0
    /\ processed_count = 0
    /\ outputs = {}
    /\ emitted = <<>>
    /\ sig_done_count = <<>>
    /\ flag_reads = {}
    /\ started = {}
    /\ cancel_after = <<>>
    /\ IdleButCa

\* process_cancel, from the GUI thread at any moment
CaProcessCancel ==
    /\ ~cancelled
    /\ cancelled' = TRUE
    /\ cancel_after' = << Cardinality(started) >>
    /\ UNCHANGED <<image_files, setup_fault, caPc, idx, processed_count, outputs,
                   emitted, sig_done_count, flag_reads, started, notCa>>

\* lines 76-95: the file list, the no-files return, the output folder and
\* the CA service; an exception reaches the outer handler (lines 148-151)
CaSetup ==
    /\ caPc = "start"
    /\ IF setup_fault = "listing"
       THEN /\ emitted' = emitted \o OuterExceptSignals
            /\ sig_done_count' = << 0 >>
            /\ caPc' = "done"
            /\ UNCHANGED idx
       ELSE IF image_files = <<>>
       THEN /\ emitted' = emitted \o NoFilesSignals
            /\ sig_done_count' = << 0 >>
            /\ caPc' = "done"
            /\ UNCHANGED idx
       ELSE IF setup_fault \in {"makedirs", "service"}
       THEN /\ emitted' = emitted \o << "msg" >> \o OuterExceptSignals
            /\ sig_done_count' = << 0 >>
            /\ caPc' = "done"
            /\ UNCHANGED idx
       ELSE /\ emitted' = emitted \o << "msg" >>
            /\ caPc' = "loop"
            /\ idx' = 1
            /\ UNCHANGED sig_done_count
    /\ UNCHANGED <<image_files, setup_fault, cancelled, processed_count, outputs,
                   flag_reads, started, cancel_after, notCa>>

\* the head of the for loop (lines 96-99): the list is exhausted, or the
\* flag is read and the loop breaks or the iteration begins
CaLoopHead ==
    /\ caPc = "loop"
    /\ IF idx > Len(image_files)
       THEN /\ caPc' = "after_loop"
            /\ UNCHANGED <<emitted, flag_reads, started>>
       ELSE /\ flag_reads' = flag_reads \cup {"loop"}
            /\ IF BreaksOnCancel(cancelled)
               THEN /\ emitted' = emitted \o << "msg_cancelled" >>
                    /\ caPc' = "after_loop"
                    /\ UNCHANGED started
               ELSE /\ started' = started \cup {idx}
                    /\ caPc' = "image"
                    /\ UNCHANGED emitted
    /\ UNCHANGED <<image_files, setup_fault, cancelled, idx, processed_count, outputs,
                   sig_done_count, cancel_after, notCa>>

\* the body of one iteration (lines 101-141): the file is read, corrected
\* and written, or skipped with a warning, or its exception is reported
CaProcessOneImage ==
    /\ caPc = "image"
    /\ emitted' = emitted \o IterationSignals
    /\ outputs' = IF image_files[idx] = "ok" THEN outputs \cup {idx} ELSE outputs
    /\ processed_count' = IF CountsImage(image_files[idx])
                          THEN processed_count + 1 ELSE processed_count
    /\ idx' = idx + 1
    /\ caPc' = "loop"
    /\ UNCHANGED <<image_files, setup_fault, cancelled, sig_done_count, flag_reads,
                   started, cancel_after, notCa>>

\* lines 143-146: the flag is read again for the closing message, then
\* sig_done
CaEmitDone ==
    /\ caPc = "after_loop"
    /\ flag_reads' = flag_reads \cup {"after_loop"}
    /\ emitted' = emitted \o CompletionSignals(cancelled)
    /\ sig_done_count' = << processed_count >>
    /\ caPc' = "done"
    /\ UNCHANGED <<image_files, setup_fault, cancelled, idx, processed_count, outputs,
                   started, cancel_after, notCa>>

CaWorker == CaSetup \/ CaLoopHead \/ CaProcessOneImage \/ CaEmitDone

NextCa == CaProcessCancel \/ CaWorker

SpecCa == InitCa /\ [][NextCa]_vars

\* the worker thread, once started, keeps running
SpecCaLive == SpecCa /\ WF_vars(CaWorker)

(***************************************************************************)
(* Spec: the main window, its algorithm widget and the analysis worker     *)
(***************************************************************************)
MaxRuns == 2
MaxCount == 2

Algorithms == {"ColorRange", "LABColorRange"}

\* ColorRangeController.validate
ColorRangeValidate(color) ==
    IF color = None THEN "Please select a search color." ELSE None

\* LABColorRangeController.validate
LABColorRangeValidate(lab_window_set, color) ==
    IF ~lab_window_set /\ color = None
    THEN "Please select a search color." ELSE None

\* self.algorithmWidget.validate()
Validate ==
    IF activeAlgorithm = "ColorRange"
    THEN ColorRangeValidate(selectedColor)
    ELSE LABColorRangeValidate(hasLabWindow, selectedColor)

\* self.algorithmWidget.getOptions(): ColorRangeController.getOptions reads
\* lowerColor / upperColor, which exist only once updateColors has run with
\* a colour; the LAB widget's get_options always returns a dict
GetOptionsRaises == activeAlgorithm = "ColorRange" /\ ~hasColorRange

\* a slip: the start is refused only when both directories are missing
StartRejected_BothDirs(alg_validation, input_dir, output_dir) ==
    \/ alg_validation # None
    \/ input_dir = "" /\ output_dir = ""

\* startButtonClicked, lines 215-224: the two early returns
StartRejected(alg_validation, input_dir, output_dir) ==
    \/ alg_validation # None
    \/ input_dir = "" \/ output_dir = ""

\* the text startButtonClicked hands to showError
StartError(alg_validation) ==
    IF alg_validation # None THEN alg_validation
    ELSE "Please set the input and output directories."

\* a slip: the view-results button follows "count >= 0"
ViewResultsAfterDone_Always(images_with_aois) == images_with_aois >= 0

\* onWorkerDone, lines 339-344: the view-results button after completion
ViewResultsAfterDone(images_with_aois) == images_with_aois > 0

\* onWorkerDone, lines 338-344: the lines it logs after
\* "--- Image Processing Completed ---"
DoneSummary(images_with_aois) ==
    IF images_with_aois > 0
    THEN [ kind |-> "images with areas of interest identified",
           n |-> images_with_aois ]
    ELSE [ kind |-> "No areas of interest identified", n |-> 0 ]

\* a slip: onWorkerDone leaves the cancel button as it is
CancelButtonAfterDone_Kept == cancelButton

\* onWorkerDone, line 347: setCancelButton(False)
CancelButtonAfterDone == FALSE

\* a slip: the answers are swapped
WarningCancels_Swapped(result) == result = "Yes"

\* showAOIsLimitWarning, line 318: "if result == QMessageBox.No"
WarningCancels(result) == result = "No"

\* AnalyzeService.processCancel(): raises the service's cancel flag
ProcessCancel(service) == << [ service[1] EXCEPT !.cancelled = TRUE ] >>

\* the state the test of the main window finds before its first click
\* (test_main_ui.py, lines 21-23), with one of the algorithm widgets loaded
Init ==
    /\ startButton = TRUE
    /\ cancelButton = FALSE
    /\ viewResultsButton = FALSE
    /\ selectedColor = None
    /\ hasColorRange = FALSE
    /\ activeAlgorithm \in Algorithms
    /\ hasLabWindow = FALSE
    /\ inputFolderLine = ""
    /\ outputFolderLine = ""
    /\ analyzeService = <<>>
    /\ nServices = 0
    /\ nThreads = 0
    /\ worker = "none"
    /\ warned = FALSE
    /\ endedByCancel = FALSE
    /\ events = <<>>
    /\ dialog = "none"
    /\ errorShown = ""
    /\ summary = <<>>
    /\ results_path = ""
    /\ lastHandler = "init"
    /\ loadedXml = <<>>
    /\ logged = {}
    /\ TextureIdle
    /\ FilterIdle
    /\ LabIdle
    /\ ExtIdle

notMw == <<texVars, filterVars, labVars, extVars>>

\* colorButtonClicked / color_button_clicked of the loaded widget: the
\* dialog is accepted or cancelled.  ColorRange: selectedColor becomes the
\* dialog's colour, invalid when cancelled, and updateColors runs only for
\* a valid one.  LAB: only an accepted dialog stores _lab_window and the
\* colour.
ColorButtonClicked ==
    /\ dialog = "none"
    /\ \E accepted \in BOOLEAN :
         IF activeAlgorithm = "ColorRange"
         THEN /\ selectedColor' = IF accepted THEN "valid" ELSE "invalid"
              /\ hasColorRange' = (hasColorRange \/ accepted)
              /\ UNCHANGED hasLabWindow
         ELSE /\ selectedColor' = IF accepted THEN "valid" ELSE selectedColor
              /\ hasLabWindow' = (hasLabWindow \/ accepted)
              /\ UNCHANGED hasColorRange
    /\ lastHandler' = "color"
    /\ loadedXml' = <<>>
    /\ UNCHANGED <<buttonVars, activeAlgorithm, inputFolderLine, outputFolderLine,
                   runVars, dialog, errorShown, summary, results_path, logged,
                   notMw>>

\* updateColors, connected to valueChanged of the three range spin boxes of
\* the ColorRange widget: whenever selectedColor is not None (a valid colour
\* or the invalid one left by a cancelled dialog) lowerColor and upperColor
\* are computed from it
RangeSpinBoxChanged ==
    /\ dialog = "none"
    /\ activeAlgorithm = "ColorRange"
    /\ hasColorRange' = (hasColorRange \/ selectedColor # None)
    /\ lastHandler' = "range_edit"
    /\ loadedXml' = <<>>
    /\ UNCHANGED <<buttonVars, activeAlgorithm, selectedColor, hasLabWindow,
                   inputFolderLine, outputFolderLine,
                   runVars, dialog, errorShown, summary, results_path, logged,
                   notMw>>

\* inputFolderButtonClicked: a directory is chosen or the dialog cancelled
InputFolderButtonClicked ==
    /\ dialog = "none"
    /\ \E directory \in {"", "in"} :
         inputFolderLine' = IF directory # "" THEN directory ELSE inputFolderLine
    /\ lastHandler' = "input_folder"
    /\ loadedXml' = <<>>
    /\ UNCHANGED <<buttonVars, selectedColor, hasColorRange, activeAlgorithm,
                   hasLabWindow, outputFolderLine, runVars, dialog, errorShown,
                   summary, results_path, logged, notMw>>

\* outputFolderButtonClicked
OutputFolderButtonClicked ==
    /\ dialog = "none"
    /\ \E directory \in {"", "out"} :
         outputFolderLine' = IF directory # "" THEN directory ELSE outputFolderLine
    /\ lastHandler' = "output_folder"
    /\ loadedXml' = <<>>
    /\ UNCHANGED <<buttonVars, selectedColor, hasColorRange, activeAlgorithm,
                   hasLabWindow, inputFolderLine, runVars, dialog, errorShown,
                   summary, results_path, logged, notMw>>

\* openLoadFile / processXmlFile / getSettingsFromXml on a results file of
\* the loaded algorithm: `has_dirs` says whether it names the directories,
\* `has_options` whether it carries the algorithm's colour options
ProcessXmlFile ==
    /\ dialog = "none"
    /\ \E image_count \in {0, 1}, has_dirs \in BOOLEAN, has_options \in BOOLEAN :
         /\ IF has_dirs
            THEN /\ outputFolderLine' = "out"
                 /\ results_path' = "out"
                 /\ inputFolderLine' = "in"
            ELSE UNCHANGED <<outputFolderLine, results_path, inputFolderLine>>
         /\ IF has_options
            THEN /\ selectedColor' = "valid"
                 /\ hasColorRange' = (hasColorRange \/ activeAlgorithm = "ColorRange")
                 /\ hasLabWindow' = (hasLabWindow \/ activeAlgorithm = "LABColorRange")
            ELSE UNCHANGED <<selectedColor, hasColorRange, hasLabWindow>>
         /\ viewResultsButton' = (viewResultsButton \/ image_count > 0)
         /\ loadedXml' = << [ image_count |-> image_count,
                              output_dir |-> IF has_dirs THEN "out" ELSE "" ] >>
    /\ lastHandler' = "load_file"
    /\ UNCHANGED <<startButton, cancelButton, activeAlgorithm, runVars, dialog,
                   errorShown, summary, logged, notMw>>

\* startButtonClicked, `ctor_raises` saying whether constructing the
\* AnalyzeService raises
StartButtonClicked ==
    /\ startButton
    /\ dialog = "none"
    /\ nServices < MaxRuns
    /\ \E ctor_raises \in BOOLEAN :
         LET alg_validation == Validate
         IN IF StartRejected(alg_validation, inputFolderLine, outputFolderLine)
            THEN /\ errorShown' = StartError(alg_validation)
                 /\ lastHandler' = "start_rejected"
                 /\ loadedXml' = <<>>
                 /\ UNCHANGED <<buttonVars, runVars, summary, results_path>>
            ELSE IF GetOptionsRaises \/ ctor_raises
            THEN \* the exception is logged; the buttons stay as set so far
                 /\ startButton' = FALSE
                 /\ viewResultsButton' = FALSE
                 /\ lastHandler' = "start_failed"
                 /\ loadedXml' = <<>>
                 /\ UNCHANGED <<cancelButton, runVars, errorShown, summary,
                                results_path>>
            ELSE /\ startButton' = FALSE
                 /\ viewResultsButton' = FALSE
                 /\ analyzeService' = << [ cancelled |-> FALSE ] >>
                 /\ nServices' = nServices + 1
                 /\ nThreads' = nThreads + 1
                 /\ worker' = "running"
                 /\ warned' = FALSE
                 /\ endedByCancel' = FALSE
                 /\ results_path' = outputFolderLine
                 /\ cancelButton' = TRUE
                 /\ lastHandler' = "start_launched"
                 /\ loadedXml' = <<>>
                 /\ UNCHANGED <<events, errorShown, summary>>
    /\ UNCHANGED <<widgetVars, dialog, logged, notMw>>

\* cancelButtonClicked
CancelButtonClicked ==
    /\ cancelButton
    /\ dialog = "none"
    /\ analyzeService' = ProcessCancel(analyzeService)
    /\ cancelButton' = FALSE
    /\ lastHandler' = "cancel"
    /\ loadedXml' = <<>>
    /\ UNCHANGED <<startButton, viewResultsButton, widgetVars, nServices, nThreads,
                   worker, warned, endedByCancel, events, dialog, errorShown,
                   summary, results_path, logged, notMw>>

\* the worker emits sig_aois, once per batch
WorkerEmitAoisWarning ==
    /\ worker = "running"
    /\ ~warned
    /\ warned' = TRUE
    /\ events' = Append(events, [ sig |-> "aois", n |-> 0 ])
    /\ UNCHANGED <<buttonVars, widgetVars, analyzeService, nServices, nThreads,
                   worker, endedByCancel, guiVars, notMw>>

\* the worker ends its batch, normally or because it saw the cancel flag,
\* and emits sig_done(id, images_with_aois)
WorkerEmitDone ==
    /\ worker = "running"
    /\ \E n \in 0 .. MaxCount, saw_cancel \in BOOLEAN :
         /\ saw_cancel => analyzeService[1].cancelled
         /\ endedByCancel' = saw_cancel
         /\ events' = Append(events, [ sig |-> "done", n |-> n ])
    /\ worker' = "finished"
    /\ UNCHANGED <<buttonVars, widgetVars, analyzeService, nServices, nThreads,
                   warned, guiVars, notMw>>

\* showAOIsLimitWarning: the question box opens (msg.exec_())
ShowAOIsLimitWarning ==
    /\ dialog = "none"
    /\ events # <<>>
    /\ Head(events).sig = "aois"
    /\ events' = Tail(events)
    /\ dialog' = "aois_limit"
    /\ lastHandler' = "warning_shown"
    /\ loadedXml' = <<>>
    /\ UNCHANGED <<buttonVars, widgetVars, analyzeService, nServices, nThreads,
                   worker, warned, endedByCancel, errorShown, summary,
                   results_path, logged, notMw>>

\* showAOIsLimitWarning: the operator answers and the handler returns
AnswerAOIsLimitWarning ==
    /\ dialog = "aois_limit"
    /\ dialog' = "none"
    /\ \E result \in {"Yes", "No"} :
         /\ IF WarningCancels(result)
            THEN /\ analyzeService' = ProcessCancel(analyzeService)
                 /\ cancelButton' = FALSE
            ELSE UNCHANGED <<analyzeService, cancelButton>>
         /\ lastHandler' = IF result = "No" THEN "warning_no" ELSE "warning_yes"
         /\ loadedXml' = <<>>
    /\ UNCHANGED <<startButton, viewResultsButton, widgetVars, nServices, nThreads,
                   worker, warned, endedByCancel, events, errorShown, summary,
                   results_path, logged, notMw>>

\* onWorkerDone(id, images_with_aois); a queued signal is also delivered
\* by the event loop of the question box
OnWorkerDone ==
    /\ events # <<>>
    /\ Head(events).sig = "done"
    /\ LET images_with_aois == Head(events).n
       IN /\ summary' = << DoneSummary(images_with_aois) >>
          /\ viewResultsButton' = ViewResultsAfterDone(images_with_aois)
          /\ logged' = logged \cup { [ cancelled |-> endedByCancel,
                                       images_with_aois |-> images_with_aois,
                                       summary |-> DoneSummary(images_with_aois) ] }
    /\ startButton' = TRUE
    /\ cancelButton' = CancelButtonAfterDone
    /\ events' = Tail(events)
    /\ worker' = "none"
    /\ lastHandler' = "done"
    /\ loadedXml' = <<>>
    /\ UNCHANGED <<widgetVars, analyzeService, nServices, nThreads, warned,
                   endedByCancel, dialog, errorShown, results_path, notMw>>

Next ==
    \/ ColorButtonClicked
    \/ RangeSpinBoxChanged
    \/ InputFolderButtonClicked
    \/ OutputFolderButtonClicked
    \/ ProcessXmlFile
    \/ StartButtonClicked
    \/ CancelButtonClicked
    \/ WorkerEmitAoisWarning
    \/ WorkerEmitDone
    \/ ShowAOIsLimitWarning
    \/ AnswerAOIsLimitWarning
    \/ OnWorkerDone

Spec == Init /\ [][Next]_vars

(***************************************************************************)
(* Claims on TextureAnalysisService                                        *)
(***************************************************************************)
\* the pixels of the image that the AOI's detected-pixel mask selects
SelectedDetected == { p \in Pixels : DetectedMask(aoi)[p] > 0 }

\* C1 (as stated): texture_ratio >= 0, and it is 0 if and only if the
\* surrounding-disk score is 0.
C1_RatioZeroIffAoiScoreZero ==
    texPc = "done" =>
        /\ texture_data.texture_ratio >= 0
        /\ (texture_data.texture_ratio = 0
              <=> texture_data.aoi_texture.texture_score = 0)

\* C1 (amended): texture_ratio >= 0, and it is 0 if and only if the
\* surrounding-disk score is 0 or the detected-pixel score is 0.
C1_RatioZeroIffAScoreZero ==
    texPc = "done" =>
        /\ texture_data.texture_ratio >= 0
        /\ (texture_data.texture_ratio = 0
              <=> \/ texture_data.aoi_texture.texture_score = 0
                  \/ texture_data.detected_texture.texture_score = 0)

\* C1 witness: a computed record whose ratio is 0 over a textured disk
C1_Witness ==
    /\ texPc = "done"
    /\ texture_data.texture_ratio = 0
    /\ texture_data.aoi_texture.texture_score > 0
    /\ texture_data.detected_texture.texture_score = 0

\* C2: a detected-pixel mask that selects fewer than 4 pixels yields the
\* neutral feature vector (contrast 0, homogeneity 1, energy 1, score 0).
C2_FewPixelsNeutral ==
    (texPc = "done" /\ Cardinality(SelectedDetected) < 4) =>
        texture_data.detected_texture = EmptyFeatures

\* what the filter is described to keep
C10_Keeps(a) ==
    \/ "texture_data" \notin DOMAIN a
    \/ a.texture_data = NoneData
    \/ /\ min_difference # NoThreshold =>
            a.texture_data.texture_difference >= min_difference[1]
       /\ min_ratio # NoThreshold =>
            a.texture_data.texture_ratio >= min_ratio[1]
       /\ max_ratio # NoThreshold =>
            a.texture_data.texture_ratio <= max_ratio[1]

\* C10: the filter returns, in their original order, exactly the AOIs
\* without texture data or satisfying every supplied threshold; the input
\* list is not modified; filtering the result again returns the same list.
C10_FilterExact ==
    /\ filterPc \in {"filtered", "refiltered"} =>
          /\ filtered = SelectSeq(input_aois, C10_Keeps)
          /\ aois = input_aois
    /\ filterPc = "refiltered" => refiltered = filtered

\* C10 witness: a filtered and re-filtered list from which an AOI was
\* dropped and in which an AOI with texture data was kept
C10_Witness ==
    /\ filterPc = "refiltered"
    /\ Len(filtered) < Len(input_aois)
    /\ \E i \in DOMAIN filtered : ~NoTextureData(filtered[i])

(***************************************************************************)
(* Claims on LABColorRangeService.process_image                            *)
(***************************************************************************)
\* the outcome and the AnalysisResult of the call that has just returned
LastOut == last[1].out[1]
LastResult == LastOut.result[1]

\* the contours of the dispatched image that pass the minimum area
QualifyingContours ==
    IF target_color_lab = NoColor THEN {}
    ELSE { c \in FindContours(InRange(last[1].img, MaskBounds)) :
             c[2] - c[1] + 1 >= min_area }

\* a step of the call in hand raised: one of the steps every call runs, or
\* store_mask on an image for which it is called
StepRaised ==
    /\ target_color_lab # NoColor
    /\ \/ last[1].fault \in {"cvtColor", "bounds", "identify", "output_path"}
       \/ last[1].fault = "store_mask" /\ QualifyingContours # {}

\* C3 as stated: process_image never propagates a failure: every call
\* returns an AnalysisResult, and when no target colour is selected or an
\* internal step raises, the result carries a non-empty error_message, no
\* mask path and no AOIs; the batch is never aborted, so the following image
\* is processed.
C3_NonEmptyMessage ==
    /\ labPc # "aborted"
    /\ labPc = "returned" =>
          /\ ~LastOut.raised
          /\ LastOut.result # NoValue
          /\ (target_color_lab = NoColor \/ StepRaised) =>
                /\ LastResult.error_message # NoValue
                /\ LastResult.error_message[1] # ""
                /\ LastResult.mask_path = NoValue
                /\ LastResult.areas_of_interest = <<>>

\* C3 amended: process_image never propagates a failure: every call returns
\* an AnalysisResult, and when no target colour is selected or an internal
\* step raises, the result carries an error_message that is not None (the
\* fixed text for a missing colour, str(e) for an exception, which is empty
\* exactly when the exception has no message), no mask path and no AOIs; the
\* batch is never aborted, so the following image is processed.
C3_NeverPropagates ==
    /\ labPc # "aborted"
    /\ labPc = "returned" =>
          /\ ~LastOut.raised
          /\ LastOut.result # NoValue
          /\ (target_color_lab = NoColor \/ StepRaised) =>
                /\ LastResult.error_message # NoValue
                /\ target_color_lab = NoColor =>
                      LastResult.error_message[1] # ""
                /\ target_color_lab # NoColor =>
                      LastResult.error_message[1] = last[1].msg
                /\ LastResult.mask_path = NoValue
                /\ LastResult.areas_of_interest = <<>>

\* C3 witness: after an image that ended in an error result, a following
\* image whose store_mask step raised an exception without a message has
\* returned a result whose error_message is the empty string
C3_Witness ==
    /\ labPc = "returned"
    /\ n_errors >= 1
    /\ last[1].fault = "store_mask"
    /\ StepRaised
    /\ LastResult.error_message = Some("")

\* C4: with zero qualifying contours the returned AOI list is empty and no
\* mask is stored (mask_path None); a mask file is written if and only if
\* the returned AOI list is non-empty.
C4_MaskIffAois ==
    labPc = "returned" =>
        /\ QualifyingContours = {} =>
              /\ LastResult.areas_of_interest = <<>>
              /\ ~LastOut.mask_written
              /\ LastResult.mask_path = NoValue
        /\ LastOut.mask_written <=> LastResult.areas_of_interest # <<>>
        /\ LastOut.mask_written <=> LastResult.mask_path # NoValue

\* C4 witness: an image with contours, none of them qualifying, returned
\* without error, without AOIs and without a mask
C4_Witness ==
    /\ labPc = "returned"
    /\ target_color_lab # NoColor
    /\ last[1].fault = "none"
    /\ FindContours(InRange(last[1].img, MaskBounds)) # {}
    /\ QualifyingContours = {}
    /\ LastResult.error_message = NoValue
    /\ LastResult.base_contour_count # Some(0)
    /\ ~LastOut.mask_written

(***************************************************************************)
(* Claims on the main window                                               *)
(***************************************************************************)
\* the algorithm widget reports a missing search colour, or a directory
\* line is empty
ConfigurationError ==
    \/ activeAlgorithm = "ColorRange" /\ selectedColor = None
    \/ activeAlgorithm = "LABColorRange" /\ ~hasLabWindow /\ selectedColor = None
    \/ inputFolderLine = ""
    \/ outputFolderLine = ""

\* C5: a start click on a configuration error (validate() returns a message,
\* or the input or output directory is empty) constructs no AnalyzeService,
\* starts no worker thread and leaves the start, cancel and view-results
\* buttons as they were.
C5_RejectedBeforeStart ==
    [][ (StartButtonClicked /\ ConfigurationError) =>
            /\ nServices' = nServices
            /\ analyzeService' = analyzeService
            /\ nThreads' = nThreads
            /\ worker' = worker
            /\ UNCHANGED buttonVars ]_vars

\* C5 witness: in a window whose directories are set and whose view-results
\* button a loaded results file had enabled, a start click was refused for
\* a missing search colour; no service exists
C5_Witness ==
    /\ lastHandler = "start_rejected"
    /\ errorShown = "Please select a search color."
    /\ inputFolderLine # ""
    /\ outputFolderLine # ""
    /\ nServices = 0
    /\ startButton
    /\ viewResultsButton

\* C6: from the launch of a batch until its completion event is handled the
\* start button is disabled; right after the launch the cancel button is
\* enabled; once the completion event is handled the start button is enabled
\* and the cancel button disabled; and the start and cancel buttons are never
\* enabled together.
C6_RunStateMachine ==
    /\ worker # "none" => ~startButton
    /\ lastHandler = "start_launched" => cancelButton
    /\ lastHandler = "done" => startButton /\ ~cancelButton
    /\ ~(startButton /\ cancelButton)

\* C6 witness: the completion event of a second batch was handled while its
\* cancel button was still enabled a step before (nobody cancelled it)
C6_Witness ==
    /\ lastHandler = "done"
    /\ nServices = 2
    /\ ~analyzeService[1].cancelled
    /\ startButton
    /\ ~cancelButton

\* C7: when onWorkerDone handles the completion event (id, images_with_aois)
\* the view-results button becomes enabled iff images_with_aois > 0,
\* whatever it was before; a start click that launches a batch disables it.
C7_ViewResultsIffAois ==
    [][ /\ OnWorkerDone => (viewResultsButton' <=> Head(events).n > 0)
        /\ (StartButtonClicked /\ nServices' # nServices) => ~viewResultsButton'
      ]_vars

\* C7 witness: a batch that found nothing has completed in a window whose
\* earlier batch had found images with AOIs; the button is disabled
C7_Witness ==
    /\ lastHandler = "done"
    /\ summary = << DoneSummary(0) >>
    /\ \E l \in logged : l.images_with_aois > 0
    /\ ~viewResultsButton

\* C8: the final summary distinguishes "no AOIs found", "processing
\* cancelled" and "completed with N images": a batch that ended through
\* cancellation is never summarised like a batch that completed normally.
C8_SummaryTellsCancelled ==
    \A l1, l2 \in logged :
        l1.cancelled # l2.cancelled => l1.summary # l2.summary

\* C9: when the AOI-limit question is answered No, cancellation of the
\* running batch is requested on the current AnalyzeService and the cancel
\* button becomes disabled; when it is answered Yes, no cancellation is
\* requested and no button changes.
C9_WarningAnswer ==
    [][ AnswerAOIsLimitWarning =>
          IF lastHandler' = "warning_no"
          THEN /\ analyzeService'[1].cancelled
               /\ ~cancelButton'
          ELSE /\ analyzeService' = analyzeService
               /\ UNCHANGED buttonVars ]_vars

\* C9 witness: the operator answered No while the batch was running and its
\* cancel button enabled: the service is cancelled, the button disabled
C9_Witness ==
    /\ lastHandler = "warning_no"
    /\ worker = "running"
    /\ analyzeService[1].cancelled
    /\ ~cancelButton
    /\ ~startButton

(***************************************************************************)
(* Claims on _calculate_composite_score                                    *)
(***************************************************************************)
\* C11: for contrast >= 0, dissimilarity >= 0 and homogeneity, energy in
\* [0,1] the composite score equals 100 * (0.3*min(contrast/10,1) +
\* 0.3*min(dissimilarity/5,1) + 0.2*(1-homogeneity) + 0.2*(1-energy)), each
\* of the four terms lies in [0,1] before weighting, and the score lies in
\* [0,100].
C11_CompositeScore ==
    (/\ scorePc = "done"
     /\ features.contrast >= 0 /\ features.dissimilarity >= 0
     /\ features.homogeneity \in 0 .. Scale /\ features.energy \in 0 .. Scale)
    => LET t == CompositeTerms(features)
           c == IF features.contrast \div 10 < Scale
                THEN features.contrast \div 10 ELSE Scale
           d == IF features.dissimilarity \div 5 < Scale
                THEN features.dissimilarity \div 5 ELSE Scale
       IN /\ score[1] = 30 * c + 30 * d + 20 * (Scale - features.homogeneity)
                          + 20 * (Scale - features.energy)
          /\ \A k \in DOMAIN t : t[k] \in 0 .. Scale
          /\ score[1] \in 0 .. 100 * Scale

\* C11 witness: a score computed from a contrast above the clamp and a
\* dissimilarity below it came out strictly between 0 and 100
C11_Witness ==
    /\ scorePc = "done"
    /\ features.contrast > 10 * Scale
    /\ features.dissimilarity \in 1 .. 5 * Scale - 1
    /\ score[1] \in 1 .. 100 * Scale - 1

AoiGeometry(a) ==
    [ center |-> a.center, radius |-> a.radius, area |-> a.area,
      detected_pixels |-> a.detected_pixels ]

\* C13: at every moment AOI k of image i is in flagged_aois[i] exactly when
\* that AOI's record has a true flagged field, the images and their AOIs
\* stay the ones of the results file, and center, radius, area and
\* detected_pixels of every AOI stay as the file gave them
C13_FlagsAgree ==
    /\ DOMAIN images = DOMAIN xml_images
    /\ \A i \in DOMAIN images :
         /\ DOMAIN images[i].areas_of_interest = DOMAIN xml_images[i].areas_of_interest
         /\ \A k \in DOMAIN images[i].areas_of_interest :
              /\ k \in FlaggedSet(i) <=> GetFlagged(images[i].areas_of_interest[k])
              /\ AoiGeometry(images[i].areas_of_interest[k])
                   = AoiGeometry(xml_images[i].areas_of_interest[k])

\* C13 witness: on the second image an AOI that the file had unflagged is
\* flagged by a toggle, while an AOI of the first image that the file had
\* flagged has been unflagged
C13_Witness ==
    /\ 1 \in DOMAIN images
    /\ current_image = 1
    /\ selected_aoi_index = 0
    /\ 0 \in DOMAIN images[1].areas_of_interest
    /\ ~GetFlagged(xml_images[1].areas_of_interest[0])
    /\ 0 \in FlaggedSet(1)
    /\ 0 \in DOMAIN images[0].areas_of_interest
    /\ GetFlagged(xml_images[0].areas_of_interest[0])
    /\ 0 \notin FlaggedSet(0)

\* options `wide` differ from `opts` only in tolerances that are at least
\* as large: the same centre with larger minus / plus values, or larger
\* fallback thresholds
WiderOptions(opts, wide) ==
    IF opts.lab_ranges # NoRanges
    THEN /\ wide.lab_ranges # NoRanges
         /\ wide.l_threshold = opts.l_threshold
         /\ wide.a_threshold = opts.a_threshold
         /\ wide.b_threshold = opts.b_threshold
         /\ LET r == opts.lab_ranges[1]
                w == wide.lab_ranges[1]
            IN /\ w.l = r.l /\ w.a = r.a /\ w.b = r.b
               /\ w.l_minus >= r.l_minus /\ w.l_plus >= r.l_plus
               /\ w.a_minus >= r.a_minus /\ w.a_plus >= r.a_plus
               /\ w.b_minus >= r.b_minus /\ w.b_plus >= r.b_plus
    ELSE /\ wide.lab_ranges = NoRanges
         /\ wide.l_threshold >= opts.l_threshold
         /\ wide.a_threshold >= opts.a_threshold
         /\ wide.b_threshold >= opts.b_threshold

\* the base_contour_count process_image returns for the image in hand
\* when it runs without failure under options `opts`
BaseContourCountUnder(opts) ==
    IdentifyAreasOfInterest(
        FindContours(InRange(last[1].img, MaskBoundsOf(target_color_lab, opts))))[2]

\* C14: when process_image has returned a base_contour_count for an image,
\* the same image and centre colour under any options with larger
\* tolerances gives a count that is not smaller
C14_WiderNeverFewer ==
    (/\ labPc = "returned"
     /\ LastResult.base_contour_count # NoValue)
    => \A wide \in LabOptions :
         WiderOptions(options, wide)
         => BaseContourCountUnder(wide) >= LastResult.base_contour_count[1]

(***************************************************************************)
(* Claims on the LAB window of dialog and detector                         *)
(***************************************************************************)
\* tolerance values (fixed point) the independence of the two sides is
\* tried with
OtherTolerances == {0, 5, 40, 300, 1000, 2000}

\* int(tolerance * scale) for channel c: scale 255 for L, 128 for A and B
ToleranceSteps(c, tolerance) ==
    (tolerance * (IF c = 1 THEN 255 ELSE 128)) \div Scale

MinusOf(r) == <<r.l_minus, r.a_minus, r.b_minus>>
PlusOf(r) == <<r.l_plus, r.a_plus, r.b_plus>>

WithoutTextureData(a) == [ k \in DOMAIN a \ {"texture_data"} |-> a[k] ]

\* C16: when analyze_aoi_batch has returned, the list it returns is the
\* caller's list, as long as the one passed in, and its k-th entry is the
\* k-th AOI passed in with texture_data set: to the texture record of that
\* AOI when the computation succeeds, to None when it raises, whatever
\* happened to the AOIs before it; while the loop runs the AOIs not yet
\* reached are as they were passed in
C16_EveryAoiAnalysed ==
    /\ batchPc \in {"loop", "returned"} =>
         /\ Len(batch_aois) = Len(batch_input)
         /\ \A k \in 1 .. Len(batch_aois) :
              IF k < batch_i
              THEN /\ WithoutTextureData(batch_aois[k])
                        = WithoutTextureData(batch_input[k])
                   /\ "texture_data" \in DOMAIN batch_aois[k]
                   /\ batch_aois[k].texture_data =
                        IF CalculateAoiTexturesRaises(batch_input[k]) THEN NoneData
                        ELSE CalculateAoiTextures(batch_image,
                                 WithDetectedPixels(batch_input[k]))
              ELSE batch_aois[k] = batch_input[k]
    /\ batchPc = "returned" =>
         /\ batch_i = Len(batch_input) + 1
         /\ batch_result = << batch_aois >>

\* C16 witness: a returned list of two AOIs, the first of which made
\* calculate_aoi_textures raise while the second has its texture record
C16_Witness ==
    /\ batchPc = "returned"
    /\ Len(batch_input) = 2
    /\ CalculateAoiTexturesRaises(batch_input[1])
    /\ ~CalculateAoiTexturesRaises(batch_input[2])
    /\ batch_result[1][1].texture_data = NoneData
    /\ batch_result[1][2].texture_data # NoneData
    /\ batch_result[1][2].texture_data.aoi_texture.texture_score > 0

(***************************************************************************)
(* Claims on load_detected_pixels_from_mask                                *)
(***************************************************************************)
Range(seq) == { seq[k] : k \in DOMAIN seq }

\* C17: what load_detected_pixels_from_mask returns for an AOI is, with a
\* readable mask, each detected pixel of that AOI once as an [x, y] pair
\* and nothing else, and the empty list when the mask path is empty,
\* missing or unreadable
C17_ExactPixels ==
    loaded # <<>> =>
        LET a == mask_aois[loaded[1].aoi]
            pixels == loaded[1].pixels
        IN IF mask_file = "ok"
           THEN /\ Range(pixels) = a.detected_pixels
                /\ Len(pixels) = Cardinality(a.detected_pixels)
           ELSE pixels = <<>>

\* C18: when processXmlFile has loaded a results file, the view-results
\* button is enabled exactly when the file holds at least one image, and
\* results_path is the output directory recorded in the file
C18_LoadedFileSetsButton ==
    lastHandler = "load_file" =>
        /\ viewResultsButton <=> loadedXml[1].image_count > 0
        /\ loadedXml[1].output_dir # "" => results_path = loadedXml[1].output_dir

(***************************************************************************)
(* Claims on ChromaticAberrationRemovalService                             *)
(***************************************************************************)
\* what process_cancel leaves to the batch: no iteration goes past the
\* cancel test after the call, only iterations that went past it write a
\* file, and at the end every iteration that went past it has run to its
\* end, its file written unless it could not be read or raised
CancelIsCooperative ==
    /\ cancel_after # <<>> => Cardinality(started) <= cancel_after[1]
    /\ outputs \subseteq started
    /\ caPc = "done" =>
         \A i \in started : image_files[i] = "ok" => i \in outputs

DoneCount == Len(SelectSeq(emitted, LAMBDA x : x = "done"))

\* C20: process_images always comes to its end, and it emits sig_done
\* exactly once by then and nothing after it, whether it found no files,
\* completed, was cancelled at any point or had an exception outside the
\* per-image handler
C20_DoneExactlyOnceLast ==
    /\ [](/\ DoneCount <= 1
          /\ DoneCount = 1 => emitted[Len(emitted)] = "done"
          /\ caPc = "done" <=> DoneCount = 1)
    /\ <>(caPc = "done")

\* C20 witness: a batch cancelled before its output folder could not be
\* created has ended through the outer handler
C20_Witness ==
    /\ caPc = "done"
    /\ setup_fault = "makedirs"
    /\ image_files # <<>>
    /\ cancelled
    /\ emitted = << "msg", "msg", "done" >>

\* C21: the count sig_done carries is the number of output files written
\* in the run and at most the number of images found; an image that could
\* not be read or whose processing raised is not counted, and the images
\* after it are still processed
C21_CountIsWritten ==
    caPc = "done" =>
        /\ sig_done_count[1] = Cardinality(outputs)
        /\ sig_done_count[1] <= Len(image_files)
        /\ (setup_fault = "none" /\ ~cancelled) =>
             started = 1 .. Len(image_files)

\* C22: a run that found at least one image has, when sig_done is emitted,
\* emitted exactly one of "Processing cancelled" and "Successfully
\* processed N images", and before sig_done
C22_OneOutcomeMessage ==
    (caPc = "done" /\ image_files # <<>>) =>
        /\ Len(SelectSeq(emitted, LAMBDA x : x \in {"msg_cancelled", "msg_success"})) = 1
        /\ emitted[Len(emitted)] = "done"

\* C24: in the ColorRange widget, whenever validate returns None a valid
\* search colour is selected and getOptions succeeds (lowerColor and
\* upperColor exist), after any sequence of colour-button clicks and range
\* edits
C24_ValidateImpliesOptions ==
    (activeAlgorithm = "ColorRange" /\ ColorRangeValidate(selectedColor) = None) =>
        /\ selectedColor = "valid"
        /\ ~GetOptionsRaises

\* C25: every displayed container's aoi_index property equals the position
\* of its AOI in the full areas_of_interest list, with the flagged-only
\* filter on or off and also when the thumbnail of an earlier AOI was
\* skipped, so the AOI a click selects is the one that was clicked
C25_ContainerIndexIsPosition ==
    \A v \in DOMAIN aoi_containers :
        aoi_containers[v].aoi_index = aoi_containers[v].position

\* what toggle_aoi_flag leaves when called in the present state, and when
\* called once more right after
ToggledOnce ==
    ToggleAoiFlagOf(flagged_aois, images, current_image, selected_aoi_index)

ToggledTwice ==
    ToggleAoiFlagOf(ToggledOnce.flagged_aois, ToggledOnce.images, current_image,
                    ToggledOnce.selected_aoi_index)

\* C26 as stated: two calls of toggle_aoi_flag with the same selected AOI
\* leave flagged_aois and the AOI records exactly as they were before and
\* selected_aoi_index unchanged, and with no AOI selected one call changes
\* nothing
C26_ToggleTwiceIsIdentity ==
    /\ ToggledTwice.flagged_aois = flagged_aois
    /\ ToggledTwice.images = images
    /\ ToggledTwice.selected_aoi_index = selected_aoi_index
    /\ ToggledOnce.selected_aoi_index = selected_aoi_index
    /\ selected_aoi_index < 0 =>
          /\ ToggledOnce.flagged_aois = flagged_aois
          /\ ToggledOnce.images = images

\* C26, amended: two calls of toggle_aoi_flag with the same selected AOI
\* restore, for every image, the set flagged_aois.get(image, set()) and, for
\* every AOI, aoi.get('flagged', False) and its other fields; one call flips
\* exactly the selected AOI's membership in the current image's set; each
\* call leaves selected_aoi_index unchanged; with no AOI selected one call
\* changes nothing at all
C26_ToggleTwiceRestoresFlags ==
    LET SetOf(fa, i) == IF i \in DOMAIN fa THEN fa[i] ELSE {}
        once == ToggledOnce
        twice == ToggleAoiFlagOf(once.flagged_aois, once.images, current_image,
                                 once.selected_aoi_index)
        FieldsOf(imgs, i) ==
            [ k \in DOMAIN imgs[i].areas_of_interest |->
                << GetFlagged(imgs[i].areas_of_interest[k]),
                   AoiGeometry(imgs[i].areas_of_interest[k]) >> ]
    IN /\ \A i \in DOMAIN images \cup DOMAIN flagged_aois
                  \cup DOMAIN twice.flagged_aois :
             SetOf(twice.flagged_aois, i) = FlaggedSet(i)
       /\ DOMAIN twice.images = DOMAIN images
       /\ \A i \in DOMAIN images :
            \/ twice.images[i] = images[i]
            \/ FieldsOf(twice.images, i) = FieldsOf(images, i)
       /\ twice.selected_aoi_index = selected_aoi_index
       /\ once.selected_aoi_index = selected_aoi_index
       /\ selected_aoi_index >= 0 =>
            /\ (selected_aoi_index \in SetOf(once.flagged_aois, current_image))
                 <=> (selected_aoi_index \notin FlaggedSet(current_image))
            /\ SetOf(once.flagged_aois, current_image) \ {selected_aoi_index}
                 = FlaggedSet(current_image) \ {selected_aoi_index}
       /\ selected_aoi_index < 0 =>
            /\ once.flagged_aois = flagged_aois
            /\ once.images = images

\* C26 witness: the selected AOI, which the results file had without a
\* flagged entry, has been flagged and unflagged again by two toggles (its
\* record now carries flagged: False and the current image's set exists
\* and is empty), and it is still the selection
C26_Witness ==
    /\ selected_aoi_index \in DOMAIN images[current_image].areas_of_interest
    /\ "flagged" \notin DOMAIN xml_images[current_image].areas_of_interest[selected_aoi_index]
    /\ "flagged" \in DOMAIN images[current_image].areas_of_interest[selected_aoi_index]
    /\ ~GetFlagged(images[current_image].areas_of_interest[selected_aoi_index])
    /\ current_image \in DOMAIN flagged_aois
    /\ flagged_aois[current_image] = {}

C23_StartButtonAfterFailedStart ==
    lastHandler \in {"start_rejected", "start_failed"} => startButton

====
